---- MODULE Spec2Model ----
(***************************************************************************)
(* A model of arcclimate/solar_separation.py: the separation of horizontal *)
(* global irradiance (TH) into direct-normal (DN) and diffuse (SH)         *)
(* irradiance by the Nagata, Watanabe, Erbs, Udagawa and Perez models.     *)
(*                                                                         *)
(* Numbers.  A Python/numpy float is modelled as a record                  *)
(*     [k |-> "fin", s |-> sign, m |-> magnitude]   a finite value         *)
(*     [k |-> "inf", ...]                           +inf or -inf           *)
(*     [k |-> "nan", ...]                           NaN (a missing value)  *)
(* A finite magnitude is a fixed-point number with 16 decimal digits after *)
(* the point, held as a little-endian sequence of base-10000 limbs (the    *)
(* integers of the model checker have 32 bits).  Arithmetic truncates      *)
(* toward zero at 1e-16, which is the resolution of a float64 near 1.      *)
(* Zero is always positive (no signed zero).                               *)
(***************************************************************************)
EXTENDS Integers, Sequences, FiniteSets, Bags, TLC

BASE == 100 * 100       \* one limb holds four decimal digits
FRACL == 2 + 2          \* limbs after the decimal point (16 digits)

--------------------------------------------------------------------------
(* Calls.  An operator of the model is applied by name, through call:     *)
(* call("Add", <<x, y>>) is Add applied to x and y, and add(x, y) is short  *)
(* for it.  The model checker unfolds the definition of an operator at     *)
(* each place it is applied; an application of call inside call is not     *)
(* unfolded again, which keeps that work proportional to the model's size. *)

RECURSIVE call(_, _)

madd(x, y) == call("MAdd", <<x, y>>)

msub(x, y) == call("MSub", <<x, y>>)

mmul(x, y) == call("MMul", <<x, y>>)

mdiv(x, y) == call("MDiv", <<x, y>>)

dec(x, y) == call("Dec", <<x, y>>)

lt(x, y) == call("Lt", <<x, y>>)

le(x, y) == call("Le", <<x, y>>)

gt(x, y) == call("Gt", <<x, y>>)

ge(x, y) == call("Ge", <<x, y>>)

add(x, y) == call("Add", <<x, y>>)

sub(x, y) == call("Sub", <<x, y>>)

mul(x, y) == call("Mul", <<x, y>>)

div(x, y) == call("Div", <<x, y>>)

divint(x, y) == call("DivInt", <<x, y>>)

mulint(x, y) == call("MulInt", <<x, y>>)

exp(x) == call("np_exp", <<x>>)

log(x) == call("np_log", <<x>>)

pow(x, y) == call("Pow", <<x, y>>)

cos(x) == call("np_cos", <<x>>)

sin(x) == call("np_sin", <<x>>)

radians(x) == call("np_radians", <<x>>)
--------------------------------------------------------------------------
(* Magnitudes: natural numbers as limb sequences without high zero limbs.  *)

SetMax(S) == CHOOSE x \in S : \A y \in S : y <= x

IMax(p, q) == IF p > q THEN p ELSE q

IMin(p, q) == IF p < q THEN p ELSE q

Limb(m, i) == IF i <= Len(m) THEN m[i] ELSE 0

MTrim(m) ==
  LET nz == {i \in 1..Len(m) : m[i] # 0}
  IN IF nz = {} THEN <<>> ELSE SubSeq(m, 1, SetMax(nz))

\* the magnitude of a natural number below 2^31
MOfInt(n) ==
  MTrim(<<n % BASE, (n \div BASE) % BASE, n \div (BASE * BASE)>>)

\* the natural number of a magnitude of at most two limbs
MToInt(m) == Limb(m, 1) + BASE * Limb(m, 2)

\* -1, 0, 1 as a < b, a = b, a > b
MCmp(a, b) ==
  IF Len(a) # Len(b) THEN (IF Len(a) < Len(b) THEN -1 ELSE 1)
  ELSE LET d == {i \in 1..Len(a) : a[i] # b[i]}
       IN IF d = {} THEN 0
          ELSE IF a[SetMax(d)] < b[SetMax(d)] THEN -1 ELSE 1

\* the tuple of a function on 1..n
Tup(f) == SubSeq(f, 1, Len(f))

\* A tuple <<e1, ..., en>>[n] below is a sequence of statements: its
\* elements are evaluated in order, each using the values of the ones
\* before it, and the last one is the result.

\* a + b.  The carry into limb k is found without a loop: some lower limb
\* overflows and every limb between carries on.
MAdd(a, b) ==
  LET n == IF Len(a) > Len(b) THEN Len(a) ELSE Len(b)
      t == Tup([k \in 1..n |-> Limb(a, k) + Limb(b, k)])
      c == Tup([k \in 1..(n + 1) |->
              IF \E j \in 1..(k - 1) :
                   t[j] >= BASE /\ \A i \in (j + 1)..(k - 1) : t[i] = BASE - 1
              THEN 1 ELSE 0])
  IN <<t, c, Tup([k \in 1..(n + c[n + 1]) |->
                    IF k > n THEN 1 ELSE (t[k] + c[k]) % BASE])>>[3]

\* a - b for a >= b, the borrows found the same way
MSub(a, b) ==
  LET n == Len(a)
      t == Tup([k \in 1..n |-> a[k] - Limb(b, k)])
      c == Tup([k \in 1..n |->
              IF \E j \in 1..(k - 1) :
                   t[j] < 0 /\ \A i \in (j + 1)..(k - 1) : t[i] = 0
              THEN 1 ELSE 0])
      d == Tup([k \in 1..n |-> (t[k] - c[k] + BASE) % BASE])
  IN <<t, c, d, MTrim(d)>>[4]

\* the sum of f over its domain, for f with values in Nat
SumFn(f) == BagCardinality([x \in {y \in DOMAIN f : f[y] > 0} |-> f[x]])

\* a * b (magnitudes of at most 21 limbs, so that a column sum fits): the
\* column sums, each split into three limbs, added up
MMul(a, b) ==
  IF a = <<>> \/ b = <<>> THEN <<>>
  ELSE LET n == Len(a) + Len(b) - 1
           cs == Tup([k \in 1..n |->
                    SumFn([i \in IMax(1, k + 1 - Len(b))..IMin(Len(a), k) |->
                             a[i] * b[k + 1 - i]])])
           lo == Tup([k \in 1..n |-> cs[k] % BASE])
           mi == Tup([k \in 1..(n + 1) |->
                    IF k = 1 THEN 0 ELSE (cs[k - 1] \div BASE) % BASE])
           hi == Tup([k \in 1..(n + 2) |->
                    IF k <= 2 THEN 0 ELSE cs[k - 2] \div (BASE * BASE)])
           s1 == madd(lo, mi)
           s2 == madd(s1, hi)
       IN <<cs, lo, mi, hi, s1, s2, MTrim(s2)>>[7]

\* a * BASE^n and floor(a / BASE^n)
MShiftL(a, n) == IF a = <<>> THEN <<>> ELSE [i \in 1..n |-> 0] \o a

MShiftR(a, n) == IF Len(a) <= n THEN <<>> ELSE SubSeq(a, n + 1, Len(a))

\* the quotient limb floor(r / d) < BASE, for d with a top limb of at least
\* BASE / 2: the estimate from the two top limbs is at most 2 too large
QDigit(r, d) ==
  IF MCmp(r, d) < 0 THEN 0
  ELSE LET n == Len(d)
           qh == IMin(BASE - 1, (Limb(r, n + 1) * BASE + r[n]) \div d[n])
           p0 == mmul(d, <<qh>>)
           p1 == mmul(d, <<qh - 1>>)
       IN <<p0, IF MCmp(p0, r) <= 0 THEN qh
                ELSE <<p1, IF MCmp(p1, r) <= 0 THEN qh - 1 ELSE qh - 2>>[2]>>[2]

\* schoolbook division, from the top limb down: st = [i, r, q] with the
\* limbs above i divided, remainder r and quotient limbs q
DivStep(a, d, st) ==
  IF st.i = 0 THEN st
  ELSE LET r1 == MTrim(<<a[st.i]>> \o st.r)
           q == call("QDigit", <<r1, d>>)
           p == mmul(d, MOfInt(q))
           r2 == msub(r1, p)
       IN <<r1, q, p, r2, [i |-> st.i - 1, r |-> r2, q |-> <<q>> \o st.q]>>[5]

\* n steps, the first half before the second
RECURSIVE LongDiv(_, _, _, _)
LongDiv(a, d, st, n) ==
  IF st.i = 0 THEN st
  ELSE IF n <= 1 THEN call("DivStep", <<a, d, st>>)
  ELSE call("LongDiv", <<a, d, call("LongDiv", <<a, d, st, n \div 2>>), n - n \div 2>>)

\* floor(a / d) for d # 0, both scaled first to bring d's top limb up
MDiv(a, d) ==
  LET f == BASE \div (d[Len(d)] + 1)
      an == mmul(a, <<f>>)
      dn == mmul(d, <<f>>)
      st == call("LongDiv", <<an, dn, [i |-> Len(an), r |-> <<>>, q |-> <<>>], Len(an)>>)
  IN <<an, dn, st, MTrim(st.q)>>[4]

--------------------------------------------------------------------------
(* Floats.                                                                 *)

Fin(s, m) == [k |-> "fin", s |-> IF m = <<>> THEN 1 ELSE s, m |-> m]

NaN == [k |-> "nan", s |-> 1, m |-> <<>>]

Inf(s) == [k |-> "inf", s |-> s, m |-> <<>>]

Zero == Fin(1, <<>>)

One == Fin(1, <<0, 0, 0, 0, 1>>)

\* the decimal literal n / 10^d, for |n| < 2^31 and d <= 16
Dec(n, d) ==
  LET e == 16 - d
      p == Tup([i \in 1..(e \div 4 + 1) |->
                  IF i = e \div 4 + 1 THEN 10 ^ (e % 4) ELSE 0])
      m == mmul(MOfInt(IF n < 0 THEN -n ELSE n), p)
  IN <<p, m, Fin(IF n < 0 THEN -1 ELSE 1, m)>>[3]

OfInt(n) == dec(n, 0)

isnan(x) == x.k = "nan"

IsFin(x) == x.k = "fin"

Neg(x) == IF x.k = "nan" THEN NaN
          ELSE IF x.k = "inf" THEN Inf(-x.s) ELSE Fin(-x.s, x.m)

Abs(x) == IF x.k = "nan" THEN NaN
          ELSE IF x.k = "inf" THEN Inf(1) ELSE Fin(1, x.m)

\* -1, 0, 1 as x < y, x = y, x > y, for x and y that are not NaN
Cmp(x, y) ==
  IF x.k = "inf" \/ y.k = "inf"
  THEN LET rx == IF x.k = "inf" THEN 2 * x.s ELSE 0
           ry == IF y.k = "inf" THEN 2 * y.s ELSE 0
       IN IF rx < ry THEN -1 ELSE IF rx > ry THEN 1 ELSE 0
  ELSE IF x.s # y.s THEN (IF x.s < y.s THEN -1 ELSE 1)
  ELSE x.s * MCmp(x.m, y.m)

\* the comparison operators of Python: every comparison with NaN is false
Lt(x, y) == ~isnan(x) /\ ~isnan(y) /\ call("Cmp", <<x, y>>) < 0

Le(x, y) == ~isnan(x) /\ ~isnan(y) /\ call("Cmp", <<x, y>>) <= 0

Gt(x, y) == lt(y, x)

Ge(x, y) == le(y, x)

Add(x, y) ==
  IF IsFin(x) /\ IsFin(y)
  THEN LET m == IF x.s = y.s THEN madd(x.m, y.m)
                ELSE IF MCmp(x.m, y.m) >= 0 THEN msub(x.m, y.m)
                ELSE msub(y.m, x.m)
       IN <<m, Fin(IF x.s = y.s \/ MCmp(x.m, y.m) >= 0 THEN x.s ELSE y.s,
                   m)>>[2]
  ELSE IF isnan(x) \/ isnan(y) THEN NaN
  ELSE IF x.k = "inf" THEN (IF y.k = "inf" /\ y.s # x.s THEN NaN ELSE x)
  ELSE y

Sub(x, y) == add(x, Neg(y))

Mul(x, y) ==
  IF IsFin(x) /\ IsFin(y)
  THEN LET m == mmul(x.m, y.m)
       IN <<m, Fin(x.s * y.s, MShiftR(m, FRACL))>>[2]
  ELSE IF isnan(x) \/ isnan(y) THEN NaN
  ELSE IF x = Zero \/ y = Zero THEN NaN
  ELSE Inf(x.s * y.s)

\* numpy's division: x / 0 is +-inf, 0 / 0 is NaN, no exception
Div(x, y) ==
  IF IsFin(x) /\ IsFin(y) /\ y # Zero
  THEN LET m == mdiv(MShiftL(x.m, FRACL), y.m)
       IN <<m, Fin(x.s * y.s, m)>>[2]
  ELSE IF isnan(x) \/ isnan(y) THEN NaN
  ELSE IF x.k = "inf" THEN (IF y.k = "inf" THEN NaN ELSE Inf(x.s * y.s))
  ELSE IF y.k = "inf" THEN Zero
  ELSE IF x = Zero THEN NaN
  ELSE Inf(x.s)

\* a faulty min that returns its first argument
first_of(x, y) == x

\* Python's built-in min and max of two arguments: the first argument is
\* kept unless the second compares strictly smaller (larger), so a NaN in
\* the second place is dropped and a NaN in the first place is kept
py_min(x, y) == IF lt(y, x) THEN y ELSE x

py_max(x, y) == IF gt(y, x) THEN y ELSE x

--------------------------------------------------------------------------
(* Elementary functions of numpy, by range reduction and power series,     *)
(* accurate to about 1e-15.                                                *)

\* division of a magnitude by 0 < n < 200000, from the top limb down:
\* st = [i, r, q]
RECURSIVE MDivSmallC(_, _, _, _)
MDivSmallC(a, n, st, c) ==
  IF st.i = 0 THEN st
  ELSE IF c <= 1
  THEN [i |-> st.i - 1, r |-> (st.r * BASE + a[st.i]) % n,
        q |-> <<(st.r * BASE + a[st.i]) \div n>> \o st.q]
  ELSE call("MDivSmallC", <<a, n, call("MDivSmallC", <<a, n, st, c \div 2>>), c - c \div 2>>)

\* x / n and x * n for a finite x and an integer 0 < n < 200000
DivInt(x, n) ==
  LET st == call("MDivSmallC", <<x.m, n, [i |-> Len(x.m), r |-> 0, q |-> <<>>],
                       Len(x.m)>>)
  IN <<st, Fin(x.s, MTrim(st.q))>>[2]

MulInt(x, n) ==
  LET m == mmul(x.m, MOfInt(n))
  IN <<m, Fin(x.s, m)>>[2]

\* floor(x) as an integer, for a finite 0 <= x < 10^8
FloorInt(x) == MToInt(MShiftR(x.m, FRACL))

IsInteger(x) == IsFin(x) /\ \A i \in 1..IMin(Len(x.m), FRACL) : x.m[i] = 0

LN2 == Fin(1, <<9453, 559, 4718, 6931>>)          \* 0.6931471805599453

PI == Fin(1, <<7932, 3589, 9265, 1415, 3>>)       \* 3.1415926535897932

\* x * 2^n for n >= 0
RECURSIVE MulPow2(_, _)
MulPow2(x, n) ==
  IF n = 0 THEN x
  ELSE LET y == mulint(x, 2 ^ IMin(n, 13))
       IN <<y, IF n > 13 THEN call("MulPow2", <<y, n - 13>>) ELSE y>>[2]

\* one more term of t, t*r/(j+1), t*r^2/((j+1)(j+2)), ...: st = [t, s, j]
ExpStep(r, st) ==
  LET p == mul(st.t, r)
      t == divint(p, st.j + 1)
      s == add(st.s, st.t)
  IN <<p, t, s, [t |-> t, s |-> s, j |-> st.j + 1]>>[4]

\* the terms summed until they vanish: c steps, the first half before the
\* second
RECURSIVE ExpLoop(_, _, _)
ExpLoop(r, st, c) ==
  IF st.t = Zero THEN st
  ELSE IF c <= 1 THEN call("ExpStep", <<r, st>>)
  ELSE call("ExpLoop", <<r, call("ExpLoop", <<r, st, c \div 2>>), c - c \div 2>>)

\* np.exp.  Below -40 the value is under the resolution; arguments above
\* 150 do not occur for the inputs of the model.  The series of a reduced
\* argument below ln 2 vanishes within 24 terms.
np_exp(x) ==
  IF IsFin(x) /\ ge(x, dec(-40, 0)) /\ le(x, dec(150, 0))
  THEN LET a == Abs(x)
           q == div(a, LN2)
           n == call("FloorInt", <<q>>)
           nl == mulint(LN2, n)
           r == sub(a, nl)
           st == call("ExpLoop", <<r, [t |-> One, s |-> Zero, j |-> 0], 24>>)
           e == call("MulPow2", <<st.s, n>>)
       IN <<a, q, nl, r, st, e, IF x.s > 0 THEN e ELSE div(One, e)>>[7]
  ELSE IF isnan(x) THEN NaN
  ELSE IF x.s > 0 THEN Inf(1) ELSE Zero

\* whether 0.75 <= m < 1.5
LogOk(m) == ~(m.m = <<>>) /\ Limb(m.m, 6) = 0
            /\ Limb(m.m, 5) * BASE + Limb(m.m, 4) >= 7500
            /\ Limb(m.m, 5) * BASE + Limb(m.m, 4) < 15000

\* one step of the reduction of x = m * 2^e towards 0.75 <= m < 1.5:
\* st = [m, e, ok]
LogStep(st) ==
  LET big == Len(st.m.m) > 5 \/ Limb(st.m.m, 5) >= 384
      up == Limb(st.m.m, 5) > 1
            \/ Limb(st.m.m, 5) * BASE + Limb(st.m.m, 4) >= 15000
      tiny == Len(st.m.m) <= 3 \/ (Len(st.m.m) = 4 /\ st.m.m[4] < 29)
      m == IF big THEN divint(st.m, 256)
           ELSE IF up THEN divint(st.m, 2)
           ELSE IF tiny THEN mulint(st.m, 256)
           ELSE mulint(st.m, 2)
      e == IF big THEN st.e + 8 ELSE IF up THEN st.e + 1
           ELSE IF tiny THEN st.e - 8 ELSE st.e - 1
  IN <<m, [m |-> m, e |-> e, ok |-> LogOk(m)]>>[2]

RECURSIVE LogReduce(_, _)
LogReduce(st, c) ==
  IF st.ok THEN st
  ELSE IF c <= 1 THEN call("LogStep", <<st>>)
  ELSE call("LogReduce", <<call("LogReduce", <<st, c \div 2>>), c - c \div 2>>)

\* one more term of p/j, p*z2/(j+2), ...: st = [p, s, j]
AtanhStep(z2, st) ==
  LET p == mul(st.p, z2)
      d == divint(st.p, st.j)
      s == add(st.s, d)
  IN <<p, d, s, [p |-> p, s |-> s, j |-> st.j + 2]>>[4]

RECURSIVE AtanhLoop(_, _, _)
AtanhLoop(z2, st, c) ==
  IF st.p = Zero THEN st
  ELSE IF c <= 1 THEN call("AtanhStep", <<z2, st>>)
  ELSE call("AtanhLoop", <<z2, call("AtanhLoop", <<z2, st, c \div 2>>), c - c \div 2>>)

\* np.log of a finite x > 0: with x = m * 2^e and z = (m-1)/(m+1), |z| <= 0.2,
\* 2 * atanh(z) + e * ln 2.  The reduction takes at most 32 steps for the
\* numbers of the model and the series vanishes within 16 terms.
np_log(x) ==
  LET st == call("LogReduce", <<[m |-> x, e |-> 0, ok |-> LogOk(x)], 32>>)
      n == sub(st.m, One)
      d == add(st.m, One)
      z == div(n, d)
      z2 == mul(z, z)
      a == call("AtanhLoop", <<z2, [p |-> z, s |-> Zero, j |-> 1], 16>>)
      a2 == mulint(a.s, 2)
      el == mulint(LN2, IF st.e < 0 THEN -st.e ELSE st.e)
  IN <<st, n, d, z, z2, a, a2, el,
       add(a2, IF st.e < 0 THEN Neg(el) ELSE el)>>[9]

\* x ** n for an integer n >= 0, by repeated squaring
RECURSIVE PowInt(_, _)
PowInt(x, n) ==
  IF n = 0 THEN One
  ELSE IF n = 1 THEN x
  ELSE LET h == call("PowInt", <<x, n \div 2>>)
           h2 == mul(h, h)
       IN <<h, h2, IF n % 2 = 0 THEN h2 ELSE mul(h2, x)>>[3]

\* x ** y and np.power(x, y): an integer exponent up to 64 in magnitude by
\* repeated multiplication, any other exponent as exp(y * log(x)); a
\* negative base with a fractional exponent gives NaN (numpy)
Pow(x, y) ==
  IF IsFin(x) /\ IsFin(y) /\ x.s > 0 /\ x # Zero /\ ~call("IsInteger", <<y>>)
  THEN LET l == log(x)
           p == mul(y, l)
       IN <<l, p, exp(p)>>[3]
  ELSE IF y = Zero THEN One
  ELSE IF isnan(x) \/ isnan(y) THEN NaN
  ELSE IF ~IsFin(x) \/ ~IsFin(y)
  THEN (IF (gt(Abs(x), One) /\ gt(y, Zero)) \/ (lt(Abs(x), One) /\ lt(y, Zero))
        THEN Inf(1) ELSE IF Abs(x) = One THEN One ELSE Zero)
  ELSE IF call("IsInteger", <<y>>) /\ le(Abs(y), dec(64, 0))
  THEN LET p == call("PowInt", <<x, call("FloorInt", <<Abs(y)>>)>>)
       IN <<p, IF y.s > 0 THEN p ELSE div(One, p)>>[2]
  ELSE IF x = Zero THEN (IF y.s > 0 THEN Zero ELSE Inf(1))
  ELSE NaN

\* one more term of t, t*f/((j+1)(j+2)), ...: st = [t, s, j]
TrigStep(f, st) ==
  LET p == mul(st.t, f)
      t == divint(p, (st.j + 1) * (st.j + 2))
      s == add(st.s, st.t)
  IN <<p, t, s, [t |-> t, s |-> s, j |-> st.j + 2]>>[4]

RECURSIVE TrigLoop(_, _, _)
TrigLoop(f, st, c) ==
  IF st.t = Zero THEN st
  ELSE IF c <= 1 THEN call("TrigStep", <<f, st>>)
  ELSE call("TrigLoop", <<f, call("TrigLoop", <<f, st, c \div 2>>), c - c \div 2>>)

\* the cosine and sine series for |x| <= pi/4, which vanish within 16 terms
CosSeries(x) ==
  LET f == Neg(mul(x, x))
  IN <<f, call("TrigLoop", <<f, [t |-> One, s |-> Zero, j |-> 0], 16>>).s>>[2]

SinSeries(x) ==
  LET f == Neg(mul(x, x))
  IN <<f, call("TrigLoop", <<f, [t |-> x, s |-> Zero, j |-> 1], 16>>).s>>[2]

\* np.cos and np.sin for |x| <= pi (the angles of the model are within
\* -pi/2..pi/2)
np_cos(x) ==
  IF ~IsFin(x) THEN NaN
  ELSE LET a == Abs(x)
           r == IF le(a, divint(PI, 4)) THEN a
                ELSE IF le(a, divint(mulint(PI, 3), 4))
                THEN sub(divint(PI, 2), a)
                ELSE sub(PI, a)
       IN <<r, IF le(a, divint(PI, 4)) THEN call("CosSeries", <<r>>)
               ELSE IF le(a, divint(mulint(PI, 3), 4)) THEN call("SinSeries", <<r>>)
               ELSE Neg(call("CosSeries", <<r>>))>>[2]

np_sin(x) ==
  IF ~IsFin(x) THEN NaN
  ELSE LET a == Abs(x)
           r == IF le(a, divint(PI, 4)) THEN a
                ELSE IF le(a, divint(mulint(PI, 3), 4))
                THEN sub(divint(PI, 2), a)
                ELSE sub(PI, a)
           v == IF le(a, divint(PI, 4)) THEN call("SinSeries", <<r>>)
                ELSE IF le(a, divint(mulint(PI, 3), 4)) THEN call("CosSeries", <<r>>)
                ELSE call("SinSeries", <<r>>)
       IN <<r, v, IF x.s > 0 THEN v ELSE Neg(v)>>[3]

\* np.radians
np_radians(d) ==
  LET p == mul(d, PI)
  IN <<p, divint(p, 180)>>[2]

\* np.digitize(x, bins) for increasing bins: the number of bins <= x; NaN
\* sorts after every number
np_digitize(x, bins) ==
  IF isnan(x) THEN Len(bins)
  ELSE Cardinality({i \in 1..Len(bins) : le(bins[i], x)})

--------------------------------------------------------------------------
(* The transmittance solver: get_SH_core and its formulas.                 *)

\* TH = IN0 * P ** (1 / Sinh) * Sinh + SH
func_TH(P, IN0, Sinh, SH) ==
  LET e == div(One, Sinh)
      pw == pow(P, e)
      m1 == mul(IN0, pw)
      m2 == mul(m1, Sinh)
  IN <<e, pw, m1, m2, add(m2, SH)>>[5]

\* SH = IN0 * Sinh * (1 - P ** (1 / Sinh)) * (0.66 - 0.32 * Sinh)
\*      * (0.5 + (0.4 - 0.3 * P) * Sinh)
func_SH_Nagata(P, IN0, Sinh) ==
  LET e == div(One, Sinh)
      pw == pow(P, e)
      f1 == mul(IN0, Sinh)
      f2 == sub(One, pw)
      f3 == sub(dec(66, 2), mul(dec(32, 2), Sinh))
      g == sub(dec(4, 1), mul(dec(3, 1), P))
      f4 == add(dec(5, 1), mul(g, Sinh))
      m1 == mul(f1, f2)
      m2 == mul(m1, f3)
  IN <<e, pw, f1, f2, f3, g, f4, m1, m2, mul(m2, f4)>>[10]

\* P clipped at 1.0, Q = (0.8672 + 0.7505 * Sinh) * P ** (0.421 * 1 / Sinh)
\* * (1 - P ** (1 / Sinh)) ** 2.277, SH = IN0 * Sinh * (Q / (1 + Q))
func_SH_Watanabe(P0, IN0, Sinh) ==
  LET P == IF ge(P0, One) THEN One ELSE P0
      q1 == add(dec(8672, 4), mul(dec(7505, 4), Sinh))
      e1 == div(mul(dec(421, 3), One), Sinh)
      pw1 == pow(P, e1)
      e2 == div(One, Sinh)
      pw2 == pow(P, e2)
      b == sub(One, pw2)
      pw3 == pow(b, dec(2277, 3))
      m1 == mul(q1, pw1)
      Q == mul(m1, pw3)
      f1 == mul(IN0, Sinh)
      Q1 == add(One, Q)
      r == div(Q, Q1)
  IN <<q1, e1, pw1, e2, pw2, b, pw3, m1, Q, f1, Q1, r, mul(f1, r)>>[13]

\* the diffuse formula passed to the solver, selected by its name
method_SH(name, P, IN0, Sinh) ==
  IF name = "Nagata" THEN call("func_SH_Nagata", <<P, IN0, Sinh>>)
  ELSE call("func_SH_Watanabe", <<P, IN0, Sinh>>)

LIMIT1 == dec(1, 5)

LIMIT2 == dec(1, 10)

P_min == Zero

P_max == dec(85, 2)

\* the state of the loop before its first iteration
CoreStart == [a |-> Zero, b |-> dec(12, 1), done |-> FALSE, exit |-> "none",
              ret |-> Zero, iter |-> 0]

\* a faulty exit_taken without the returns on a small P and on the width
\* of the bracket
exit_without_small_bracket(d, a, b, P) ==
  IF le(d, LIMIT1) THEN "converged"
  ELSE IF ge(a, P_max) THEN "a>=P_max"
  ELSE IF le(b, P_min) THEN "b<=P_min"
  ELSE "none"

\* the branch of the if/elif chain an iteration takes with the residual
\* d = abs(TH0 - TH), the bounds a and b and the midpoint P: one of the
\* returns, or "none" when a bound is updated
exit_taken(d, a, b, P) ==
  IF le(d, LIMIT1) THEN "converged"
  ELSE IF ge(a, P_max) THEN "a>=P_max"
  ELSE IF le(b, P_min) THEN "b<=P_min"
  ELSE IF le(P, mulint(LIMIT2, 10)) THEN "P~0"
  ELSE IF le(Abs(sub(a, b)), LIMIT2) THEN "not converged"
  ELSE "none"

\* a faulty bound_update that leaves the upper bound as it is
lower_bound_only(st, P, below) ==
  IF below THEN [st EXCEPT !.a = P, !.iter = @ + 1]
  ELSE [st EXCEPT !.iter = @ + 1]

\* the last two branches of the if/elif chain: a = P if TH0 < TH (below),
\* b = P otherwise
bound_update(st, P, below) ==
  IF below THEN [st EXCEPT !.a = P, !.iter = @ + 1]
  ELSE [st EXCEPT !.b = P, !.iter = @ + 1]

\* one iteration of the while loop: a return (done, with the exit taken and
\* the value returned) or an update of one bound
CoreStep(st, TH, Sinh, IN0, name) ==
  LET P == divint(add(st.a, st.b), 2)
      SH == call("method_SH", <<name, P, IN0, Sinh>>)
      TH0 == call("func_TH", <<P, IN0, Sinh, SH>>)
      d == Abs(sub(TH0, TH))
      how == call("exit_taken", <<d, st.a, st.b, P>>)
      Pr == IF how = "converged" THEN (IF ge(P, P_max) THEN P_max ELSE P)
            ELSE IF how = "a>=P_max" THEN P_max
            ELSE IF how = "b<=P_min" THEN P_min
            ELSE Zero
      SHr == IF how = "converged" /\ ~ge(P, P_max) THEN SH
             ELSE IF how \in {"none", "not converged"} THEN NaN
             ELSE call("method_SH", <<name, Pr, IN0, Sinh>>)
  IN <<P, SH, TH0, d, how, SHr,
       IF how = "none"
       THEN bound_update(st, P, lt(TH0, TH))
       ELSE [st EXCEPT !.done = TRUE, !.exit = how, !.iter = @ + 1,
                       !.ret = IF how = "not converged" THEN NaN
                               ELSE call("py_min", <<SHr, TH>>)]>>[7]

\* at most n more iterations from st
RECURSIVE CoreRun(_, _, _, _, _, _)
CoreRun(st, n, TH, Sinh, IN0, name) ==
  IF st.done \/ n = 0 THEN st
  ELSE IF n = 1 THEN call("CoreStep", <<st, TH, Sinh, IN0, name>>)
  ELSE call("CoreRun", <<call("CoreRun", <<st, n \div 2, TH, Sinh, IN0, name>>),
               n - n \div 2, TH, Sinh, IN0, name>>)

\* the iterations the model follows a loop for
MaxIter == 48

\* get_SH_core: the loop run to its return
get_SH_core(TH, Sinh, IN0, name) ==
  call("CoreRun", <<CoreStart, MaxIter, TH, Sinh, IN0, name>>)

--------------------------------------------------------------------------
(* The closed-form models and the energy balance.                          *)

func_DN(TH, SH, Sinh) == div(sub(TH, SH), Sinh)

func_SH(TH, DN, Sinh) == sub(TH, mul(DN, Sinh))

func_KT(TH, IN0, Sinh) == div(TH, mul(IN0, Sinh))

func_SH_Erbs_1d_022(TH, KT) == mul(TH, sub(One, mul(dec(9, 2), KT)))

func_SH_Erbs_4d(TH, KT) ==
  mul(TH, add(sub(add(sub(dec(9511, 4), mul(dec(1604, 4), KT)),
                      mul(dec(4388, 3), pow(KT, OfInt(2)))),
                  mul(dec(16638, 3), pow(KT, OfInt(3)))),
              mul(dec(12336, 3), pow(KT, OfInt(4)))))

func_SH_Erbs_1d_080(TH) == mul(dec(165, 3), TH)

\* a faulty SH_Erbs_row whose first branch is for KT < 0.22
Erbs_row_strict(TH, IN0, Sinh) ==
  IF isnan(TH) THEN NaN
  ELSE IF le(TH, Zero) THEN Zero
  ELSE LET KT == call("py_min", <<One, call("func_KT", <<TH, IN0, Sinh>>)>>)
       IN IF lt(KT, dec(22, 2)) THEN call("func_SH_Erbs_1d_022", <<TH, KT>>)
          ELSE IF le(dec(22, 2), KT) /\ le(KT, dec(80, 2))
          THEN call("func_SH_Erbs_4d", <<TH, KT>>)
          ELSE call("func_SH_Erbs_1d_080", <<TH>>)

\* one row of get_SH_Erbs
SH_Erbs_row(TH, IN0, Sinh) ==
  IF isnan(TH) THEN NaN
  ELSE IF le(TH, Zero) THEN Zero
  ELSE LET KT == call("py_min", <<One, call("func_KT", <<TH, IN0, Sinh>>)>>)
       IN IF le(KT, dec(22, 2)) THEN call("func_SH_Erbs_1d_022", <<TH, KT>>)
          ELSE IF lt(dec(22, 2), KT) /\ le(KT, dec(80, 2))
          THEN call("func_SH_Erbs_4d", <<TH, KT>>)
          ELSE call("func_SH_Erbs_1d_080", <<TH>>)

func_DN_Udagawa_3d(IN0, Sinh, KT) ==
  mul(mul(IN0, add(sub(dec(2277, 3), mul(dec(1258, 3), Sinh)),
                   mul(dec(2396, 4), pow(Sinh, OfInt(2))))),
      pow(KT, OfInt(3)))

func_DN_Udagawa_1d(IN0, KT) ==
  mul(IN0, add(dec(-43, 2), mul(dec(143, 2), KT)))

\* KC = (0.5163 + 0.333 * Sinh + 0.00803 * Sinh ** 2) * IN0 * Sinh
KC(IN0, Sinh) ==
  mul(mul(add(add(dec(5163, 4), mul(dec(333, 3), Sinh)),
              mul(dec(803, 5), pow(Sinh, OfInt(2)))),
          IN0), Sinh)

\* a faulty DN_Udagawa_row whose linear branch is not floored at 0.0
Udagawa_row_unfloored(TH, IN0, Sinh) ==
  IF isnan(TH) THEN NaN
  ELSE IF le(TH, Zero) THEN Zero
  ELSE LET KT == call("py_min", <<One, call("func_KT", <<TH, IN0, Sinh>>)>>)
       IN IF lt(KT, call("KC", <<IN0, Sinh>>))
          THEN call("py_max", <<Zero, call("func_DN_Udagawa_3d", <<IN0, Sinh, KT>>)>>)
          ELSE call("func_DN_Udagawa_1d", <<IN0, KT>>)

\* one row of get_DN_Udagawa
DN_Udagawa_row(TH, IN0, Sinh) ==
  IF isnan(TH) THEN NaN
  ELSE IF le(TH, Zero) THEN Zero
  ELSE LET KT == call("py_min", <<One, call("func_KT", <<TH, IN0, Sinh>>)>>)
       IN IF lt(KT, call("KC", <<IN0, Sinh>>))
          THEN call("py_max", <<Zero, call("func_DN_Udagawa_3d", <<IN0, Sinh, KT>>)>>)
          ELSE call("py_max", <<Zero, call("func_DN_Udagawa_1d", <<IN0, KT>>)>>)

--------------------------------------------------------------------------
(* The Perez model.                                                        *)

\* the Perez coefficients in the order of the source, each times 10^6; the
\* array is reshaped to 6 x 6 x 7 x 5
get_CM ==
  <<385230, 385230, 385230, 462880, 317440, 338390, 338390,
    221270, 316730, 503650, 235680, 235680, 241280, 157830,
    269440, 830130, 830130, 171970, 841070, 457370, 548010,
    548010, 478000, 966880, 1036370, 548010, 548010, 1000000,
    3012370, 1976540, 582690, 582690, 229720, 892710, 569950,
    131280, 131280, 385460, 511070, 127940, 223710, 223710,
    193560, 304560, 193940, 229970, 229970, 275020, 312730,
    244610, 90100, 184580, 260500, 687480, 579440, 131530,
    131530, 370190, 1380350, 1052270, 1116250, 1116250, 928030,
    3525490, 2316920, 90100, 237000, 300040, 812470, 664970,
    587510, 130000, 400000, 537210, 832490, 306210, 129830,
    204460, 500000, 681640, 224020, 260620, 334080, 501040,
    350470, 421540, 753970, 750660, 3706840, 983790, 706680,
    373530, 1245670, 864860, 1992630, 4864400, 117390, 265180,
    359180, 3310820, 392080, 493290, 651560, 1932780, 898730,
    126970, 126970, 126970, 126970, 126970, 810820, 810820,
    810820, 810820, 810820, 3241680, 2500000, 2291440, 2291440,
    2291440, 4000000, 3000000, 2000000, 975430, 1965570, 12494170,
    12494170, 8000000, 5083520, 8792390, 21744240, 21744240, 21744240,
    21744240, 21744240, 3241680, 12494170, 1620760, 1375250, 2331620,
    126970, 126970, 126970, 126970, 126970, 810820, 810820,
    810820, 810820, 810820, 3241680, 2500000, 2291440, 2291440,
    2291440, 4000000, 3000000, 2000000, 975430, 1965570, 12494170,
    12494170, 8000000, 5083520, 8792390, 21744240, 21744240, 21744240,
    21744240, 21744240, 3241680, 12494170, 1620760, 1375250, 2331620,
    126970, 126970, 126970, 126970, 126970, 810820, 810820,
    810820, 810820, 810820, 3241680, 2500000, 2291440, 2291440,
    2291440, 4000000, 3000000, 2000000, 975430, 1965570, 12494170,
    12494170, 8000000, 5083520, 8792390, 21744240, 21744240, 21744240,
    21744240, 21744240, 3241680, 12494170, 1620760, 1375250, 2331620,
    337440, 337440, 969110, 1097190, 1116080, 337440, 337440,
    969110, 1116030, 623900, 337440, 337440, 1530590, 1024420,
    908480, 584040, 584040, 847250, 914940, 1289300, 337440,
    337440, 310240, 1435020, 1852830, 337440, 337440, 1015010,
    1097190, 2117230, 337440, 337440, 969110, 1145730, 1476400,
    300000, 300000, 700000, 1100000, 796940, 219870, 219870,
    526530, 809610, 649300, 386650, 386650, 119320, 576120,
    685460, 746730, 399830, 470970, 986530, 785370, 575420,
    936700, 1649200, 1495840, 1335590, 1319670, 4002570, 1276390,
    2644550, 2518670, 665190, 678910, 1012360, 1199940, 986580,
    378870, 974060, 500000, 491880, 665290, 105210, 263470,
    407040, 553460, 582590, 312900, 345240, 1144180, 854790,
    612280, 119070, 365120, 560520, 793720, 802600, 781610,
    837390, 1270420, 1537980, 1292950, 1152290, 1152290, 1492080,
    1245370, 2177100, 424660, 529550, 966910, 1033460, 958730,
    310590, 714410, 252450, 500000, 607600, 975190, 363420,
    500000, 400000, 502800, 175580, 196250, 476360, 1072470,
    490510, 719280, 698620, 657770, 1190840, 681110, 426240,
    1464840, 678550, 1157730, 978430, 2501120, 1789130, 1387090,
    2394180, 2394180, 491640, 677610, 685610, 1082400, 735410,
    597000, 500000, 300000, 310050, 413510, 314790, 336310,
    400000, 400000, 442460, 166510, 460440, 552570, 1000000,
    461610, 401020, 559110, 403630, 1016710, 671490, 400360,
    750830, 842640, 1802600, 1023830, 3315300, 1510380, 2443650,
    1638820, 2133990, 530790, 745850, 693050, 1458040, 804500,
    597000, 500000, 300000, 310050, 800920, 314790, 336310,
    400000, 400000, 237040, 166510, 460440, 552570, 1000000,
    581990, 401020, 559110, 403630, 1016710, 898570, 400360,
    750830, 842640, 1802600, 3400390, 3315300, 1510380, 2443650,
    1638820, 2508780, 204340, 1157740, 2003080, 2622080, 1409380,
    1242210, 1242210, 1242210, 1242210, 1242210, 56980, 56980,
    656990, 656990, 925160, 89090, 89090, 1040430, 1232480,
    1205300, 1053850, 1053850, 1399690, 1084640, 1233340, 1151540,
    1151540, 1118290, 1531640, 1411840, 1494980, 1494980, 1700000,
    1800810, 1671600, 1018450, 1018450, 1153600, 1321890, 1294670,
    700000, 700000, 1023460, 700000, 945830, 886300, 886300,
    1333620, 800000, 1066620, 902180, 902180, 954330, 1126690,
    1097310, 1095300, 1075060, 1176490, 1139470, 1096110, 1201660,
    1201660, 1438200, 1256280, 1198060, 1525850, 1525850, 1869160,
    1985410, 1911590, 1288220, 1082810, 1286370, 1166170, 1119330,
    600000, 1029910, 859890, 550000, 813600, 604450, 1029910,
    859890, 656700, 928840, 455850, 750580, 804930, 823000,
    911000, 526580, 932310, 908620, 983520, 988090, 1036110,
    1100690, 848380, 1035270, 1042380, 1048440, 1652720, 900000,
    2350410, 1082950, 817410, 976160, 861300, 974780, 1004580,
    782110, 564280, 600000, 600000, 665740, 894480, 680730,
    541990, 800000, 669140, 487460, 818950, 841830, 872540,
    709040, 709310, 872780, 908480, 953290, 844350, 863920,
    947770, 876220, 1078750, 936910, 1280350, 866720, 769790,
    1078750, 975130, 725420, 869970, 868810, 951190, 829220,
    791750, 654040, 483170, 409000, 597180, 566140, 948990,
    971820, 653570, 718550, 648710, 637730, 870510, 860600,
    694300, 637630, 767610, 925670, 990310, 847670, 736380,
    946060, 1117590, 1029340, 947020, 1180970, 850000, 1050000,
    950000, 888580, 700560, 801440, 961970, 906140, 823880,
    500000, 500000, 586770, 470550, 629790, 500000, 500000,
    1056220, 1260140, 658140, 500000, 500000, 631830, 842620,
    582780, 554710, 734730, 985820, 915640, 898260, 712510,
    1205990, 909510, 1078260, 885610, 1899260, 1559710, 1000000,
    1150000, 1120390, 653880, 793120, 903320, 944070, 796130,
    1000000, 1000000, 1050000, 1170380, 1178090, 960580, 960580,
    1059530, 1179030, 1131690, 871470, 871470, 995860, 1141910,
    1114600, 1201590, 1201590, 993610, 1109380, 1126320, 1065010,
    1065010, 828660, 939970, 1017930, 1065010, 1065010, 623690,
    1119620, 1132260, 1071570, 1071570, 958070, 1114130, 1127110,
    950000, 973390, 852520, 1092200, 1096590, 804120, 913870,
    980990, 1094580, 1042420, 737540, 935970, 999940, 1056490,
    1050060, 1032980, 1034540, 968460, 1032080, 1015780, 900000,
    977210, 945960, 1008840, 969960, 600000, 750000, 750000,
    844710, 899100, 926800, 965030, 968520, 1044910, 1032310,
    850000, 1029710, 961100, 1055670, 1009700, 818530, 960010,
    996450, 1081970, 1036470, 765380, 953500, 948260, 1052110,
    1000140, 775610, 909610, 927800, 987800, 952100, 1000990,
    881880, 875950, 949100, 893690, 902370, 875960, 807990,
    942410, 917920, 856580, 928270, 946820, 1032260, 972990,
    750000, 857930, 983800, 1056540, 980240, 750000, 987010,
    1013730, 1133780, 1038250, 800000, 947380, 1012380, 1091270,
    999840, 800000, 914550, 908570, 999190, 915230, 778540,
    800590, 799070, 902180, 851560, 680190, 317410, 507680,
    388910, 646710, 794920, 912780, 960830, 1057110, 947950,
    750000, 833890, 867530, 1059890, 932840, 979700, 971470,
    995510, 1068490, 1030150, 858850, 987920, 1043220, 1108700,
    1044900, 802400, 955110, 911660, 1045070, 944470, 884890,
    766210, 885390, 859070, 818190, 615680, 700000, 850000,
    624620, 669300, 835570, 946150, 977090, 1049350, 979970,
    689220, 809600, 900000, 789500, 853990, 854660, 852840,
    938200, 923110, 955010, 938600, 932980, 1010390, 1043950,
    1041640, 843620, 981300, 951590, 946100, 966330, 694740,
    814690, 572650, 400000, 726830, 211370, 671780, 416340,
    297290, 498050, 843540, 882330, 911760, 898420, 960210,
    1054880, 1075210, 1068460, 1153370, 1069220, 1000000, 1062220,
    1013470, 1088170, 1046200, 885090, 993530, 942590, 1054990,
    1012740, 920000, 950000, 978720, 1020280, 984440, 850000,
    908500, 839940, 985570, 962180, 800000, 800000, 810080,
    950000, 961550, 1038590, 1063200, 1034440, 1112780, 1037800,
    1017610, 1028360, 1058960, 1133180, 1045620, 920000, 998970,
    1033590, 1089030, 1022060, 912370, 949930, 979770, 1020420,
    981770, 847160, 935300, 930540, 955050, 946560, 880260,
    867110, 874130, 972650, 883420, 627150, 627150, 700000,
    774070, 845130, 973700, 1006240, 1026190, 1071960, 1017240,
    1028710, 1017570, 1025900, 1081790, 1024240, 924980, 985500,
    1014100, 1092210, 999610, 828570, 934920, 994950, 1024590,
    949710, 900810, 901330, 928830, 979570, 913100, 761030,
    845150, 805360, 936790, 853460, 626400, 546750, 730500,
    850000, 689050, 957630, 985480, 991790, 1050220, 987900,
    992730, 993880, 1017150, 1059120, 1017450, 975610, 987160,
    1026820, 1075440, 1007250, 871090, 933190, 974690, 979840,
    952730, 828750, 868090, 834920, 905510, 871530, 781540,
    782470, 767910, 764140, 795890, 743460, 693390, 514870,
    630150, 715660, 934760, 957870, 959640, 972510, 981640,
    965840, 941240, 987100, 1022540, 1011160, 988630, 994770,
    976590, 950000, 1034840, 958200, 1018080, 974480, 920000,
    989870, 811720, 869090, 812020, 850000, 821050, 682030,
    679480, 632450, 746580, 738550, 668290, 445860, 500000,
    678920, 696510, 926940, 953350, 959050, 876210, 991490,
    948940, 997760, 850000, 826520, 998470, 1017860, 970000,
    850000, 700000, 988560, 1000000, 950000, 850000, 606240,
    947260, 1000000, 746140, 751740, 598390, 725230, 922210,
    500000, 376800, 517110, 548630, 500000, 450000, 429970,
    404490, 539940, 960430, 881630, 775640, 596350, 937680,
    1030000, 1040000, 1000000, 1000000, 1049510, 1050000, 990000,
    990000, 950000, 996530, 1050000, 990000, 990000, 820000,
    971940, 1050000, 790000, 880000, 820000, 951840, 1000000,
    530000, 440000, 710000, 928730, 540000, 470000, 500000,
    550000, 773950, 1038270, 920180, 910930, 821140, 1034560,
    1041020, 997520, 961600, 1000000, 1035780, 948030, 980000,
    900000, 950360, 977460, 950000, 977250, 869270, 800000,
    951680, 951870, 850000, 748770, 700000, 883850, 900000,
    823190, 727450, 600000, 839870, 850000, 805020, 692310,
    500000, 788410, 1010090, 895270, 773030, 816280, 1011680,
    1022450, 1004600, 983650, 1000000, 1032940, 943960, 999240,
    983920, 905990, 978150, 936240, 946480, 850000, 850000,
    930320, 816420, 885000, 644950, 817650, 865310, 742960,
    765690, 561520, 700000, 827140, 643870, 596710, 474460,
    600000, 651200, 971740, 940560, 714880, 864380, 1001650,
    995260, 977010, 1000000, 1000000, 1035250, 939810, 975250,
    939980, 950000, 982550, 876870, 879440, 850000, 900000,
    917810, 873480, 873450, 751470, 850000, 863040, 761470,
    702360, 638770, 750000, 783120, 734080, 650000, 600000,
    650000, 715660, 942160, 919100, 770340, 731170, 995180,
    952560, 916780, 920000, 900000, 1005880, 928620, 994420,
    900000, 900000, 983720, 913070, 850000, 850000, 800000,
    924280, 868090, 807170, 823550, 600000, 844520, 769570,
    719870, 650000, 550000, 733500, 580250, 650000, 600000,
    500000, 628850, 904770, 852650, 708370, 493730, 949030,
    911970, 800000, 800000, 800000, 956320, 912620, 682610,
    750000, 700000, 950110, 653450, 659330, 700000, 600000,
    856110, 648440, 600000, 641120, 500000, 695780, 570000,
    550000, 598800, 400000, 560150, 475230, 500000, 518640,
    339970, 520230, 743440, 592190, 603060, 316930, 794390>>

\* CM[I, J, K, L] of the reshaped array (indices from 0)
CM(I, J, K, L) == dec(get_CM[((I * 6 + J) * 7 + K) * 5 + L + 1], 6)

\* W * 3600 * 10**-6
W_to_MJ(W) == mul(mul(W, dec(3600, 0)), dec(1, 6))

\* MJ / (3600 * 10**-6)
MJ_to_W(MJ) == div(MJ, mul(dec(3600, 0), dec(1, 6)))

KTBIN == <<dec(24, 2), dec(4, 1), dec(56, 2), dec(7, 1), dec(8, 1)>>

ZBIN == <<dec(25, 0), dec(40, 0), dec(55, 0), dec(70, 0), dec(80, 0)>>

DKTBIN == <<dec(15, 3), dec(35, 3), dec(7, 2), dec(15, 2), dec(3, 1)>>

WBIN == <<dec(1, 0), dec(2, 0), dec(3, 0)>>

\* the element-wise part of get_DN_perez_core for one hour of the window:
\* g in W/m2, hd the altitude after negative altitudes were made missing
PerezHour(g, hd, IO, ALT) ==
  LET ZENITH == sub(dec(90, 0), hd)
      rad == IF IsFin(ZENITH) THEN radians(ZENITH) ELSE NaN
      cz == cos(rad)
      CZ == IF le(cz, dec(65, 3)) THEN dec(65, 3) ELSE cz
      IOCZ == mul(IO, CZ)
      KT == div(g, IOCZ)
      zb == sub(dec(939, 1), ZENITH)
      pw == pow(zb, dec(-1253, 3))
      am0 == div(One, add(CZ, mul(dec(15, 2), pw)))
      AM == IF ge(am0, dec(1525, 2)) THEN dec(1525, 2) ELSE am0
      ea == exp(mul(dec(-1184, 7), ALT))
      KTPAM == mul(AM, ea)
      q == add(dec(9, 1), div(dec(94, 1), KTPAM))
      eb == exp(div(dec(-14, 1), q))
      kt1 == div(KT, add(mul(dec(1031, 3), eb), dec(1, 1)))
      KT1 == IF lt(cz, Zero) THEN NaN ELSE kt1
  IN <<ZENITH, rad, cz, CZ, IOCZ, KT, zb, pw, am0, ea, KTPAM, q, eb, kt1,
       [ZENITH |-> ZENITH, cz |-> cz, CZ |-> CZ, KT |-> KT, AM |-> AM,
        KT1 |-> KT1]>>[15]

\* a faulty L_bin that takes the bin 4 for every hour
L_bin_always_four(TD, W) == 4

\* the bin of the precipitable water W: 4 when the dew point TD is missing
L_bin(TD, W) ==
  IF isnan(TD) THEN 4 ELSE call("np_digitize", <<W, WBIN>>)

\* the scalar part of get_DN_perez_core, from the three hours w of the
\* window (w[2] the current hour): the local variables at the return
PerezScalar(G, w, TD, IO) ==
  LET kt == w[2].KT
      am == w[2].AM
      k2 == pow(kt, dec(2, 0))
      k3 == pow(kt, dec(3, 0))
      low == le(kt, dec(6, 1))
      A == IF low
           THEN sub(add(sub(dec(512, 3), mul(dec(156, 2), kt)),
                        mul(dec(2286, 3), k2)), mul(dec(222, 2), k3))
           ELSE add(sub(add(dec(-5743, 3), mul(dec(2177, 2), kt)),
                        mul(dec(2749, 2), k2)), mul(dec(1156, 2), k3))
      B == IF low
           THEN add(dec(37, 2), mul(dec(962, 3), kt))
           ELSE add(add(sub(dec(4140, 2), mul(dec(1185, 1), kt)),
                        mul(dec(6605, 2), k2)), mul(dec(319, 1), k3))
      C == IF low
           THEN sub(add(dec(-28, 2), mul(dec(932, 3), kt)),
                    mul(dec(2048, 3), k2))
           ELSE add(sub(add(dec(-4701, 2), mul(dec(1842, 1), kt)),
                        mul(dec(2220, 1), k2)), mul(dec(7381, 2), k3))
      a2 == pow(am, dec(2, 0))
      a3 == pow(am, dec(3, 0))
      a4 == pow(am, dec(4, 0))
      KNC == add(sub(add(sub(dec(866, 3), mul(dec(122, 3), am)),
                         mul(dec(121, 4), a2)), mul(dec(653, 6), a3)),
                 mul(dec(14, 6), a4))
      ec == exp(mul(C, am))
      BMAX == mul(IO, sub(KNC, add(A, mul(B, ec))))
      KT1 == <<IF isnan(G[1]) \/ isnan(w[1].ZENITH) THEN NaN ELSE w[1].KT1,
               w[2].KT1,
               IF isnan(G[3]) \/ isnan(w[3].ZENITH) THEN NaN ELSE w[3].KT1>>
      d10 == Abs(sub(KT1[2], KT1[1]))
      d21 == Abs(sub(KT1[3], KT1[2]))
      both == isnan(KT1[1]) /\ isnan(KT1[3])
      DKT1 == IF isnan(KT1[1]) \/ ge(w[1].ZENITH, dec(85, 0)) THEN d21
              ELSE IF isnan(KT1[3]) \/ ge(w[3].ZENITH, dec(85, 0)) THEN d10
              ELSE mul(dec(5, 1), add(d10, d21))
      K == IF both THEN 6 ELSE call("np_digitize", <<DKT1, DKTBIN>>)
      I == call("np_digitize", <<KT1[2], KTBIN>>)
      J == call("np_digitize", <<w[2].ZENITH, ZBIN>>)
      W == exp(add(dec(-75, 3), mul(dec(7, 2), TD)))
      L == L_bin(TD, W)
      cm == call("CM", <<I, J, K, L>>)
      DIRMAX == mul(BMAX, cm)
  IN <<k2, k3, A, B, C, a2, a3, a4, KNC, ec, BMAX, KT1, d10, d21, DKT1, W,
       cm, DIRMAX,
       [KT1 |-> KT1, DKT1 |-> IF both THEN NaN ELSE DKT1, both |-> both,
        I |-> I, J |-> J, K |-> K, L |-> L, BMAX |-> BMAX,
        ret |-> call("W_to_MJ", <<IF lt(DIRMAX, Zero) THEN Zero ELSE DIRMAX>>)]>>[19]

\* a faulty early_return without the return on the altitude
early_without_altitude(G1, h1) ==
  IF lt(G1, One) \/ isnan(G1) THEN "G<1"
  ELSE "none"

\* the two returns of 0.0 at the head of get_DN_perez_core, from the
\* current hour's irradiance G1 (W/m2) and altitude h1 (degrees)
early_return(G1, h1) ==
  IF lt(G1, One) \/ isnan(G1) THEN "G<1"
  ELSE IF le(h1, Zero) THEN "h<=0"
  ELSE "none"

\* get_DN_perez_core on the window arrays G_mj and h_deg: the value
\* returned (ret), the window altitudes as the call leaves them (h_deg),
\* the exit taken and, at the last exit, the local variables
get_DN_perez_core(G_mj, h_deg, TD, ALT, IN0) ==
  LET G == <<call("MJ_to_W", <<G_mj[1]>>), call("MJ_to_W", <<G_mj[2]>>), call("MJ_to_W", <<G_mj[3]>>)>>
      hn == [k \in 1..3 |-> IF lt(h_deg[k], Zero) THEN NaN ELSE h_deg[k]]
      IO == call("MJ_to_W", <<IN0>>)
      w1 == call("PerezHour", <<G[1], hn[1], IO, ALT>>)
      w2 == call("PerezHour", <<G[2], hn[2], IO, ALT>>)
      w3 == call("PerezHour", <<G[3], hn[3], IO, ALT>>)
      sc == call("PerezScalar", <<G, <<w1, w2, w3>>, TD, IO>>)
      early == call("early_return", <<G[2], h_deg[2]>>)
  IN <<G, early,
       IF early # "none"
       THEN [ret |-> Zero, h_deg |-> h_deg, exit |-> early]
       ELSE <<IO, w1, w2, w3,
              IF lt(w2.CZ, Zero)
              THEN [ret |-> Zero, h_deg |-> Tup(hn), exit |-> "CZ<0"]
              ELSE <<sc, [ret |-> sc.ret, h_deg |-> Tup(hn), exit |-> "end",
                          loc |-> sc]>>[2]>>[5]>>[3]

--------------------------------------------------------------------------
(* get_sun_position.  The calendar and hour-angle arithmetic of the        *)
(* function is not followed: a timestamp of the index is given by the two  *)
(* angles that arithmetic yields for it at the site, the true anomaly v    *)
(* and the mean solar altitude h of the hour before it, both in degrees.   *)
(* The extraterrestrial irradiance and the sine of the altitude are        *)
(* computed from them as the function does.  The azimuth column A is read  *)
(* by nothing in the module and is left out of the frame.                  *)

J0 == dec(4921, 3)

\* IN0, h and Sinh of the timestamp t
sun_row(t) ==
  LET c == cos(radians(t.v))
      s == sin(radians(t.h))
  IN <<c, s, [IN0 |-> mul(J0, add(One, mul(dec(33, 3), c))),
              h |-> t.h, Sinh |-> s]>>[3]

--------------------------------------------------------------------------
(* The rows of the batch functions.                                        *)

\* a faulty get_SH_case that looks at the missing value first
case_missing_first(TH, Sinh) ==
  IF isnan(TH) THEN "missing"
  ELSE IF le(Sinh, Zero) THEN "night"
  ELSE "solve"

\* the branch a row of get_SH takes
get_SH_case(TH, Sinh) ==
  IF le(Sinh, Zero) THEN "night"
  ELSE IF isnan(TH) THEN "missing"
  ELSE "solve"

\* what get_SH appends for a row whose solver call returned the value r
get_SH_value(r) == call("py_max", <<Zero, r>>)

\* one row of get_SH
get_SH_row(TH, Sinh, IN0, name) ==
  LET c == call("get_SH_case", <<TH, Sinh>>)
  IN IF c = "night" THEN Zero
     ELSE IF c = "missing" THEN NaN
     ELSE call("get_SH_value", <<call("get_SH_core", <<TH, Sinh, IN0, name>>).ret>>)

\* the row of the model that needs no neighbouring row
row_model(mode, TH, Sinh, IN0) ==
  IF mode = "Erbs" THEN call("SH_Erbs_row", <<TH, IN0, Sinh>>)
  ELSE IF mode = "Udagawa" THEN call("DN_Udagawa_row", <<TH, IN0, Sinh>>)
  ELSE call("get_SH_row", <<TH, Sinh, IN0, mode>>)

\* the three-hour window of the array X around row k (rows count from 1):
\* the first row has no previous hour, the last row no next hour
window(X, k) ==
  IF k = 1 THEN <<NaN, X[k], X[k + 1]>>
  ELSE IF k = Len(X) THEN <<X[k - 1], X[k], NaN>>
  ELSE <<X[k - 1], X[k], X[k + 1]>>

--------------------------------------------------------------------------
(* The inputs the model is run on.                                         *)

\* the rows a frame may hold
MaxRows == 2

\* the hours the frames are cut from: the timestamp t, the two irradiance
\* series and the dew point.  Hour 1 is a night hour (altitude -10 deg)
\* whose est value is missing, hour 2 a day hour (30 deg) whose msm value
\* is negative, hour 3 has the sun on the horizon and a missing msm value.
Day ==
  <<[t |-> [v |-> dec(0, 0), h |-> dec(-10, 0)],
     est |-> NaN, msm |-> One, DT |-> dec(5, 0)],
    [t |-> [v |-> dec(90, 0), h |-> dec(30, 0)],
     est |-> dec(2, 0), msm |-> dec(-5, 1), DT |-> NaN],
    [t |-> [v |-> dec(180, 0), h |-> Zero],
     est |-> One, msm |-> NaN, DT |-> dec(10, 0)]>>

\* the site elevations (m) a call is made for
Elevations == {Zero, dec(1000, 0)}

\* the irradiance columns a frame may come with
ColumnSets == SUBSET {"est", "msm"}

\* the frame of the first n hours of Day, with the series cols
DayFrame(n, cols) ==
  [c \in {"DT"} \cup {"DSWRF_" \o g : g \in cols} |->
     Tup([i \in 1..n |->
            IF c = "DT" THEN Day[i].DT
            ELSE IF c = "DSWRF_est" THEN Day[i].est
            ELSE Day[i].msm])]

\* a caller's frame, its index and the elevation of its site
Cut(n, cols, e) ==
  [frame |-> call("DayFrame", <<n, cols>>),
   index |-> Tup([i \in 1..n |-> Day[i].t]),
   ele |-> e]

Inputs ==
  {call("Cut", <<n, cols, e>>) :
     n \in 1..IMin(MaxRows, Len(Day)), cols \in ColumnSets,
     e \in Elevations}

\* the hours a batch may hold
MaxHours == 3

\* the hours the batches are cut from: TH (MJ/m2), the solar altitude h
\* (degrees), the dew point TD (deg C) and IN0 (MJ/m2)
Hours ==
  <<[TH |-> NaN, h |-> dec(-10, 0), TD |-> dec(5, 0), IN0 |-> dec(4921, 3)],
    [TH |-> dec(5, 1), h |-> dec(3, 0), TD |-> dec(5, 0), IN0 |-> dec(4921, 3)],
    [TH |-> dec(2, 0), h |-> dec(30, 0), TD |-> NaN, IN0 |-> dec(4921, 3)],
    [TH |-> One, h |-> dec(60, 0), TD |-> dec(10, 0), IN0 |-> dec(4921, 3)],
    [TH |-> dec(2, 3), h |-> dec(30, 0), TD |-> dec(5, 0), IN0 |-> dec(4921, 3)],
    [TH |-> dec(3, 1), h |-> Zero, TD |-> dec(5, 0), IN0 |-> dec(4921, 3)],
    [TH |-> NaN, h |-> dec(30, 0), TD |-> dec(5, 0), IN0 |-> dec(4921, 3)]>>

\* the arguments of a call: the n hours from hour s on, at elevation e
Batch(s, n, e) ==
  [TH |-> Tup([i \in 1..n |-> Hours[s + i - 1].TH]),
   h |-> Tup([i \in 1..n |-> Hours[s + i - 1].h]),
   TD |-> Tup([i \in 1..n |-> Hours[s + i - 1].TD]),
   ALT |-> e,
   IN0 |-> Tup([i \in 1..n |-> Hours[s + i - 1].IN0])]

\* the rows a batch of get_SH_Erbs or get_DN_Udagawa may hold
MaxBatch == 2

\* the rows the batches are cut from: TH, IN0 and Sinh.  With IN0 = 2 and
\* Sinh = 0.5, KT is TH, so rows 4..9 have KT = 0.1, 0.22, 0.5, 0.8, 0.9
\* and 1 (capped); rows 10..12 have a low sun, for which KC is 0.2705; rows
\* 13..15 have the sun on and below the horizon
Samples ==
  <<[TH |-> NaN, IN0 |-> dec(4921, 3), Sinh |-> dec(5, 1)],
    [TH |-> Zero, IN0 |-> dec(4921, 3), Sinh |-> dec(5, 1)],
    [TH |-> dec(-5, 1), IN0 |-> dec(4921, 3), Sinh |-> dec(5, 1)],
    [TH |-> dec(1, 1), IN0 |-> dec(2, 0), Sinh |-> dec(5, 1)],
    [TH |-> dec(22, 2), IN0 |-> dec(2, 0), Sinh |-> dec(5, 1)],
    [TH |-> dec(5, 1), IN0 |-> dec(2, 0), Sinh |-> dec(5, 1)],
    [TH |-> dec(8, 1), IN0 |-> dec(2, 0), Sinh |-> dec(5, 1)],
    [TH |-> dec(9, 1), IN0 |-> dec(2, 0), Sinh |-> dec(5, 1)],
    [TH |-> dec(15, 1), IN0 |-> dec(2, 0), Sinh |-> dec(5, 1)],
    [TH |-> dec(1, 1), IN0 |-> dec(4921, 3), Sinh |-> dec(1, 1)],
    [TH |-> dec(1378, 4), IN0 |-> dec(4921, 3), Sinh |-> dec(1, 1)],
    [TH |-> dec(3, 1), IN0 |-> dec(4921, 3), Sinh |-> dec(1, 1)],
    [TH |-> One, IN0 |-> dec(4921, 3), Sinh |-> Zero],
    [TH |-> One, IN0 |-> dec(4921, 3), Sinh |-> dec(-5, 1)],
    [TH |-> dec(2, 0), IN0 |-> dec(4921, 3), Sinh |-> dec(5, 1)]>>

\* the arguments of a call of fn: the n rows from row s on
RowBatch(fn, s, n) ==
  [fn |-> fn,
   TH |-> Tup([i \in 1..n |-> Samples[s + i - 1].TH]),
   IN0 |-> Tup([i \in 1..n |-> Samples[s + i - 1].IN0]),
   Sinh |-> Tup([i \in 1..n |-> Samples[s + i - 1].Sinh])]

\* the calls of get_SH_Erbs and get_DN_Udagawa on at most m rows
RowBatches(m) ==
  {call("RowBatch", <<fn, p[1], p[2]>>) :
     fn \in {"get_SH_Erbs", "get_DN_Udagawa"},
     p \in {q \in (1..Len(Samples)) \X (1..m) :
              q[1] + q[2] - 1 <= Len(Samples)}}

--------------------------------------------------------------------------
(* Rows computed once.  A row of a batch function depends on the values of *)
(* that row alone (for Perez: of its window), so a row met again is looked *)
(* up; a row that is not in a table is computed.                           *)

\* the hours the frames of Inputs reach
DayHours == 1..IMin(MaxRows, Len(Day))

SunTable == {<<Day[i].t, call("sun_row", <<Day[i].t>>)>> : i \in DayHours}

sun_at(t) ==
  IF \E p \in SunTable : p[1] = t
  THEN (CHOOSE p \in SunTable : p[1] = t)[2]
  ELSE call("sun_row", <<t>>)

\* get_sun_position for the index date
get_sun_position(date) == Tup([i \in 1..Len(date) |-> call("sun_at", <<date[i]>>)])

RowKeys ==
  UNION {{<<m, th, call("sun_at", <<Day[i].t>>).Sinh,
            call("sun_at", <<Day[i].t>>).IN0>> :
            m \in {"Nagata", "Watanabe", "Erbs", "Udagawa"},
            th \in {Day[i].est, Day[i].msm}} : i \in DayHours}

RowTable == {<<k, call("row_model", <<k[1], k[2], k[3], k[4]>>)>> : k \in RowKeys}

row_at(mode, TH, Sinh, IN0) ==
  IF \E p \in RowTable : p[1] = <<mode, TH, Sinh, IN0>>
  THEN (CHOOSE p \in RowTable : p[1] = <<mode, TH, Sinh, IN0>>)[2]
  ELSE call("row_model", <<mode, TH, Sinh, IN0>>)

\* the windows get_DN_perez hands to its core for the input x
PerezKeysOf(x) ==
  LET sun == call("get_sun_position", <<x.index>>)
      n == Len(sun)
      h == Tup([i \in 1..n |-> sun[i].h])
  IN UNION {{<<call("window", <<x.frame[c], k>>), call("window", <<h, k>>), x.frame.DT[k], x.ele,
               sun[k].IN0>> :
               k \in {j \in 1..n : n >= 2 /\ ~isnan(x.frame[c][j])}} :
            c \in DOMAIN x.frame \ {"DT"}}

PerezTable ==
  {<<k, call("get_DN_perez_core", <<k[1], k[2], k[3], k[4], k[5]>>)>> :
     k \in UNION {call("PerezKeysOf", <<x>>) : x \in Inputs}}

perez_core_at(G_mj, h_deg, TD, ALT, IN0) ==
  IF \E p \in PerezTable : p[1] = <<G_mj, h_deg, TD, ALT, IN0>>
  THEN (CHOOSE p \in PerezTable : p[1] = <<G_mj, h_deg, TD, ALT, IN0>>)[2]
  ELSE call("get_DN_perez_core", <<G_mj, h_deg, TD, ALT, IN0>>)

--------------------------------------------------------------------------
(* The batch functions.                                                    *)

get_SH(TH, Sinh, IN0, name) ==
  Tup([i \in 1..Len(TH) |-> call("row_at", <<name, TH[i], Sinh[i], IN0[i]>>)])

get_SH_Erbs(TH, IN0, Sinh) ==
  Tup([i \in 1..Len(TH) |-> call("row_at", <<"Erbs", TH[i], Sinh[i], IN0[i]>>)])

get_DN_Udagawa(TH, IN0, Sinh) ==
  Tup([i \in 1..Len(TH) |-> call("row_at", <<"Udagawa", TH[i], Sinh[i], IN0[i]>>)])

\* a faulty perez_hour that calls get_DN_perez_core for every hour, also
\* for an hour whose TH is missing
perez_hour_core_always(TH, h, TD, ALT, IN0, k) ==
  IF k = 1 /\ Len(TH) < 2 THEN [err |-> "IndexError"]
  ELSE LET c == call("perez_core_at", <<call("window", <<TH, k>>), call("window", <<h, k>>), TD[k], ALT,
                              IN0[k]>>)
       IN [err |-> "none", dn |-> c.ret, G |-> call("window", <<TH, k>>),
           H |-> c.h_deg, core |-> c]

\* a faulty caller_array for a window that is a view of the caller's
\* array: what is written to the window is written to the rows k-1..k+1
view_of_array(X, W, k) ==
  Tup([i \in 1..Len(X) |->
         IF i \in {k - 1, k, k + 1} /\ (k > 1 \/ i >= k)
            /\ (k < Len(X) \/ i <= k)
         THEN W[i - k + 2] ELSE X[i]])

\* the caller's array X after the iteration for row k has left the window
\* W: np.array([...]) builds the window from the values of X, so what the
\* core writes to the window stays in the window
caller_array(X, W, k) == X

\* one iteration of the loop of get_DN_perez, for row k (rows count from
\* 1): the windows G and H as the iteration leaves them, the value
\* appended (dn) and the record of the core call; the first iteration of
\* a one-row batch reads TH[1] of an array that has an element 0 only
perez_hour(TH, h, TD, ALT, IN0, k) ==
  IF k = 1 /\ Len(TH) < 2 THEN [err |-> "IndexError"]
  ELSE IF isnan(TH[k])
  THEN [err |-> "none", dn |-> NaN, G |-> call("window", <<TH, k>>),
        H |-> call("window", <<h, k>>), core |-> [exit |-> "not called"]]
  ELSE LET c == call("perez_core_at", <<call("window", <<TH, k>>), call("window", <<h, k>>), TD[k], ALT,
                              IN0[k]>>)
       IN [err |-> "none", dn |-> c.ret, G |-> call("window", <<TH, k>>),
           H |-> c.h_deg, core |-> c]

get_DN_perez(TH, h, TD, ALT, IN0) ==
  LET rows == Tup([k \in 1..Len(TH) |-> call("perez_hour", <<TH, h, TD, ALT, IN0, k>>)])
  IN IF \E k \in 1..Len(TH) : rows[k].err # "none"
     THEN [err |-> "IndexError"]
     ELSE [err |-> "none", DN |-> Tup([k \in 1..Len(TH) |-> rows[k].dn])]

--------------------------------------------------------------------------
(* get_separate.                                                           *)

\* df[col] = val
SetCol(df, col, val) == (col :> val) @@ df

\* a faulty floor0 that leaves the value as it is
no_floor(x) == x

\* df.loc[df[col] <= 0.0, col] = 0.0 on one value
floor0(x) == IF le(x, Zero) THEN Zero ELSE x

\* the model's own column of the series targ, when the model is known
model_column(df, targ, ele_target, mode_separation) ==
  LET TH == df["DSWRF_" \o targ]
  IN IF mode_separation \in {"Nagata", "Watanabe"}
     THEN [err |-> "none",
           df |-> SetCol(df, "SH_" \o targ,
                         call("get_SH", <<TH, df.Sinh, df.IN0, mode_separation>>))]
     ELSE IF mode_separation = "Erbs"
     THEN [err |-> "none",
           df |-> SetCol(df, "SH_" \o targ,
                         call("get_SH_Erbs", <<TH, df.IN0, df.Sinh>>))]
     ELSE IF mode_separation = "Udagawa"
     THEN [err |-> "none",
           df |-> SetCol(df, "DN_" \o targ,
                         call("get_DN_Udagawa", <<TH, df.IN0, df.Sinh>>))]
     ELSE IF mode_separation = "Perez"
     THEN LET r == call("get_DN_perez", <<TH, df.h, df.DT, ele_target, df.IN0>>)
          IN IF r.err # "none" THEN [err |-> r.err, df |-> df]
             ELSE [err |-> "none", df |-> SetCol(df, "DN_" \o targ, r.DN)]
     ELSE [err |-> "none", df |-> df]

\* the other quantity of the series targ from the energy balance, floored
complement(df, targ) ==
  LET TH == df["DSWRF_" \o targ]
      n == Len(TH)
  IN IF ("SH_" \o targ) \in DOMAIN df
     THEN SetCol(df, "DN_" \o targ,
                 Tup([i \in 1..n |->
                        call("floor0", <<call("func_DN", <<TH[i], df["SH_" \o targ][i],
                                       df.Sinh[i]>>)>>)]))
     ELSE IF ("DN_" \o targ) \in DOMAIN df
     THEN SetCol(df, "SH_" \o targ,
                 Tup([i \in 1..n |->
                        call("floor0", <<call("func_SH", <<TH[i], df["DN_" \o targ][i],
                                       df.Sinh[i]>>)>>)]))
     ELSE df

\* one pass of the loop over the two series; r is the outcome so far
separate_targ(r, targ, ele_target, mode_separation) ==
  IF r.err # "none" \/ ("DSWRF_" \o targ) \notin DOMAIN r.df THEN r
  ELSE LET m == call("model_column", <<r.df, targ, ele_target, mode_separation>>)
       IN IF m.err # "none" THEN m
          ELSE [err |-> "none", df |-> call("complement", <<m.df, targ>>)]

\* get_separate on the frame msm_target with the index date: the frame as
\* the call leaves it (it is written in place), the error raised or
\* "none", and the frame returned
get_separate(msm_target, date, ele_target, mode_separation) ==
  LET sun == call("get_sun_position", <<date>>)
      n == Len(date)
      df0 == ("IN0" :> Tup([i \in 1..n |-> sun[i].IN0]))
             @@ ("h" :> Tup([i \in 1..n |-> sun[i].h]))
             @@ ("Sinh" :> Tup([i \in 1..n |-> sun[i].Sinh]))
             @@ msm_target
      r1 == call("separate_targ", <<[err |-> "none", df |-> df0], "est", ele_target,
                          mode_separation>>)
      r2 == call("separate_targ", <<r1, "msm", ele_target, mode_separation>>)
  IN <<sun, df0, r1, r2,
       [df |-> r2.df, err |-> r2.err,
        out |-> IF r2.err = "none"
                THEN [c \in DOMAIN r2.df \ {"IN0", "Sinh"} |-> r2.df[c]]
                ELSE <<>>]>>[5]

--------------------------------------------------------------------------
(* The operators that are applied by name.                                 *)

call(f, a) ==
  CASE f = "Mul" -> Mul(a[1], a[2])
    [] f = "Add" -> Add(a[1], a[2])
    [] f = "Sub" -> Sub(a[1], a[2])
    [] f = "MMul" -> MMul(a[1], a[2])
    [] f = "MAdd" -> MAdd(a[1], a[2])
    [] f = "MSub" -> MSub(a[1], a[2])
    [] f = "Div" -> Div(a[1], a[2])
    [] f = "MDiv" -> MDiv(a[1], a[2])
    [] f = "QDigit" -> QDigit(a[1], a[2])
    [] f = "DivStep" -> DivStep(a[1], a[2], a[3])
    [] f = "LongDiv" -> LongDiv(a[1], a[2], a[3], a[4])
    [] f = "Dec" -> Dec(a[1], a[2])
    [] f = "Cmp" -> Cmp(a[1], a[2])
    [] f = "Lt" -> Lt(a[1], a[2])
    [] f = "Le" -> Le(a[1], a[2])
    [] f = "Gt" -> Gt(a[1], a[2])
    [] f = "Ge" -> Ge(a[1], a[2])
    [] f = "py_min" -> py_min(a[1], a[2])
    [] f = "py_max" -> py_max(a[1], a[2])
    [] f = "MDivSmallC" -> MDivSmallC(a[1], a[2], a[3], a[4])
    [] f = "DivInt" -> DivInt(a[1], a[2])
    [] f = "MulInt" -> MulInt(a[1], a[2])
    [] f = "FloorInt" -> FloorInt(a[1])
    [] f = "IsInteger" -> IsInteger(a[1])
    [] f = "MulPow2" -> MulPow2(a[1], a[2])
    [] f = "ExpStep" -> ExpStep(a[1], a[2])
    [] f = "ExpLoop" -> ExpLoop(a[1], a[2], a[3])
    [] f = "np_exp" -> np_exp(a[1])
    [] f = "LogStep" -> LogStep(a[1])
    [] f = "LogReduce" -> LogReduce(a[1], a[2])
    [] f = "AtanhStep" -> AtanhStep(a[1], a[2])
    [] f = "AtanhLoop" -> AtanhLoop(a[1], a[2], a[3])
    [] f = "np_log" -> np_log(a[1])
    [] f = "PowInt" -> PowInt(a[1], a[2])
    [] f = "Pow" -> Pow(a[1], a[2])
    [] f = "TrigStep" -> TrigStep(a[1], a[2])
    [] f = "TrigLoop" -> TrigLoop(a[1], a[2], a[3])
    [] f = "CosSeries" -> CosSeries(a[1])
    [] f = "SinSeries" -> SinSeries(a[1])
    [] f = "np_cos" -> np_cos(a[1])
    [] f = "np_sin" -> np_sin(a[1])
    [] f = "np_radians" -> np_radians(a[1])
    [] f = "np_digitize" -> np_digitize(a[1], a[2])
    [] f = "func_TH" -> func_TH(a[1], a[2], a[3], a[4])
    [] f = "func_SH_Nagata" -> func_SH_Nagata(a[1], a[2], a[3])
    [] f = "func_SH_Watanabe" -> func_SH_Watanabe(a[1], a[2], a[3])
    [] f = "method_SH" -> method_SH(a[1], a[2], a[3], a[4])
    [] f = "exit_taken" -> exit_taken(a[1], a[2], a[3], a[4])
    [] f = "CoreStep" -> CoreStep(a[1], a[2], a[3], a[4], a[5])
    [] f = "CoreRun" -> CoreRun(a[1], a[2], a[3], a[4], a[5], a[6])
    [] f = "get_SH_core" -> get_SH_core(a[1], a[2], a[3], a[4])
    [] f = "func_DN" -> func_DN(a[1], a[2], a[3])
    [] f = "func_SH" -> func_SH(a[1], a[2], a[3])
    [] f = "func_KT" -> func_KT(a[1], a[2], a[3])
    [] f = "func_SH_Erbs_1d_022" -> func_SH_Erbs_1d_022(a[1], a[2])
    [] f = "func_SH_Erbs_4d" -> func_SH_Erbs_4d(a[1], a[2])
    [] f = "func_SH_Erbs_1d_080" -> func_SH_Erbs_1d_080(a[1])
    [] f = "SH_Erbs_row" -> SH_Erbs_row(a[1], a[2], a[3])
    [] f = "func_DN_Udagawa_3d" -> func_DN_Udagawa_3d(a[1], a[2], a[3])
    [] f = "func_DN_Udagawa_1d" -> func_DN_Udagawa_1d(a[1], a[2])
    [] f = "DN_Udagawa_row" -> DN_Udagawa_row(a[1], a[2], a[3])
    [] f = "CM" -> CM(a[1], a[2], a[3], a[4])
    [] f = "W_to_MJ" -> W_to_MJ(a[1])
    [] f = "MJ_to_W" -> MJ_to_W(a[1])
    [] f = "PerezHour" -> PerezHour(a[1], a[2], a[3], a[4])
    [] f = "PerezScalar" -> PerezScalar(a[1], a[2], a[3], a[4])
    [] f = "early_return" -> early_return(a[1], a[2])
    [] f = "get_DN_perez_core" -> get_DN_perez_core(a[1], a[2], a[3], a[4], a[5])
    [] f = "sun_row" -> sun_row(a[1])
    [] f = "get_SH_case" -> get_SH_case(a[1], a[2])
    [] f = "get_SH_value" -> get_SH_value(a[1])
    [] f = "get_SH_row" -> get_SH_row(a[1], a[2], a[3], a[4])
    [] f = "row_model" -> row_model(a[1], a[2], a[3], a[4])
    [] f = "window" -> window(a[1], a[2])
    [] f = "KC" -> KC(a[1], a[2])
    [] f = "RowBatch" -> RowBatch(a[1], a[2], a[3])
    [] f = "RowBatches" -> RowBatches(a[1])
    [] f = "DayFrame" -> DayFrame(a[1], a[2])
    [] f = "Batch" -> Batch(a[1], a[2], a[3])
    [] f = "Cut" -> Cut(a[1], a[2], a[3])
    [] f = "sun_at" -> sun_at(a[1])
    [] f = "get_sun_position" -> get_sun_position(a[1])
    [] f = "row_at" -> row_at(a[1], a[2], a[3], a[4])
    [] f = "PerezKeysOf" -> PerezKeysOf(a[1])
    [] f = "perez_core_at" -> perez_core_at(a[1], a[2], a[3], a[4], a[5])
    [] f = "get_SH" -> get_SH(a[1], a[2], a[3], a[4])
    [] f = "get_SH_Erbs" -> get_SH_Erbs(a[1], a[2], a[3])
    [] f = "get_DN_Udagawa" -> get_DN_Udagawa(a[1], a[2], a[3])
    [] f = "perez_hour" -> perez_hour(a[1], a[2], a[3], a[4], a[5], a[6])
    [] f = "get_DN_perez" -> get_DN_perez(a[1], a[2], a[3], a[4], a[5])
    [] f = "floor0" -> floor0(a[1])
    [] f = "model_column" -> model_column(a[1], a[2], a[3], a[4])
    [] f = "complement" -> complement(a[1], a[2])
    [] f = "separate_targ" -> separate_targ(a[1], a[2], a[3], a[4])
    [] f = "get_separate" -> get_separate(a[1], a[2], a[3], a[4])

--------------------------------------------------------------------------
(* The state.                                                              *)

VARIABLES
  frame,    \* get_separate: the caller's frame msm_target, written in place
  site,     \* get_separate: the index of the frame and the site elevation
  given,    \* get_separate: the frame as the caller first had it
  last,     \* get_separate: the last call, its outcome, the frame returned
  shpc,     \* get_SH: where the call is
  shin,     \* get_SH: the row the call is for
  shloop,   \* get_SH_core: a, b and the iterations of the while loop
  shout,    \* get_SH: the value appended for the row and the DN derived
  pzpc,     \* get_DN_perez: where the call is
  pzin,     \* get_DN_perez: the caller's arrays
  pzrow,    \* get_DN_perez: the loop's row, its windows and its core call
  pzout,    \* get_DN_perez: the list DN
  rwpc,     \* get_SH_Erbs, get_DN_Udagawa: where the call is
  rwin,     \* get_SH_Erbs, get_DN_Udagawa: the caller's arrays
  rwout     \* get_SH_Erbs, get_DN_Udagawa: the list SH or DN

sepvars == <<frame, site, given, last>>

shvars == <<shpc, shin, shloop, shout>>

pzvars == <<pzpc, pzin, pzrow, pzout>>

rwvars == <<rwpc, rwin, rwout>>

vars == <<frame, site, given, last, shpc, shin, shloop, shout, pzpc, pzin,
          pzrow, pzout, rwpc, rwin, rwout>>

NoCall == [mode |-> "none", status |-> "none", out |-> <<>>,
           reused |-> FALSE]

SepIdle == frame = <<>> /\ site = <<>> /\ given = <<>> /\ last = NoCall

SHIdle == shpc = "idle" /\ shin = <<>> /\ shloop = CoreStart /\ shout = <<>>

PZIdle == pzpc = "idle" /\ pzin = <<>> /\ pzrow = <<>> /\ pzout = <<>>

RWIdle == rwpc = "idle" /\ rwin = <<>> /\ rwout = <<>>

--------------------------------------------------------------------------
(* Calls of get_separate on a caller's frame.                              *)

\* the model names get_separate knows
Models == {"Nagata", "Watanabe", "Erbs", "Udagawa", "Perez"}

\* the model names a caller passes; "Bird" is a name get_separate does
\* not know
Modes == Models \cup {"Bird"}

Init ==
  /\ \E x \in Inputs :
       /\ frame = x.frame
       /\ site = [index |-> x.index, ele |-> x.ele]
       /\ given = x.frame
  /\ last = NoCall
  /\ SHIdle
  /\ PZIdle
  /\ RWIdle

\* a call get_separate(frame, lat, lon, ele, mode), run to its end: the
\* caller's frame is written in place, also when the call raises
Call(mode) ==
  \E r \in {call("get_separate", <<frame, site.index, site.ele, mode>>)} :
     /\ frame' = r.df
     /\ last' = [mode |-> mode,
                 status |-> IF r.err = "none" THEN "returned" ELSE r.err,
                 out |-> r.out,
                 reused |-> last.status # "none"]
     /\ UNCHANGED <<site, given>>
     /\ UNCHANGED <<shvars, pzvars, rwvars>>

Next == \E mode \in Modes : Call(mode)

Spec == Init /\ [][Next]_vars

--------------------------------------------------------------------------
(* One row of get_SH, its call of get_SH_core followed iteration by        *)
(* iteration, and the DN get_separate derives from the row; and calls of   *)
(* get_SH_core of its own.                                                 *)

\* the rows: TH, Sinh and IN0
SHRows ==
  {[TH |-> dec(2, 0), Sinh |-> dec(5, 1), IN0 |-> dec(4921, 3)],
   [TH |-> dec(2773, 6), Sinh |-> One, IN0 |-> dec(10, 0)],
   [TH |-> NaN, Sinh |-> dec(-5, 1), IN0 |-> dec(4921, 3)],
   [TH |-> One, Sinh |-> Zero, IN0 |-> dec(4921, 3)],
   [TH |-> NaN, Sinh |-> dec(5, 1), IN0 |-> dec(4921, 3)],
   [TH |-> dec(-5, 1), Sinh |-> dec(5, 1), IN0 |-> dec(4921, 3)],
   [TH |-> One, Sinh |-> dec(5, 1), IN0 |-> dec(4921, 3)]}

\* a row of get_SH with either diffuse model, or a call of get_SH_core
\* (get_SH calls get_SH_core for rows with Sinh > 0 only)
SHInputs ==
  {x \in [entry : {"get_SH", "get_SH_core"}, name : {"Nagata", "Watanabe"},
          row : SHRows] :
     x.entry = "get_SH" \/ (x.row.Sinh.s > 0 /\ x.row.Sinh.m # <<>>)}

InitSH ==
  /\ SepIdle
  /\ PZIdle
  /\ RWIdle
  /\ \E x \in SHInputs :
       shin = [entry |-> x.entry, name |-> x.name, TH |-> x.row.TH,
               Sinh |-> x.row.Sinh, IN0 |-> x.row.IN0]
  /\ shpc = "call"
  /\ shloop = CoreStart
  /\ shout = <<>>

\* the body of the loop of get_SH for the row: sh = 0.0, sh = np.nan, or
\* the call of get_SH_core
Row ==
  /\ shpc = "call"
  /\ shin.entry = "get_SH"
  /\ \E c \in {call("get_SH_case", <<shin.TH, shin.Sinh>>)} :
       /\ shpc' = IF c = "solve" THEN "loop" ELSE "derive"
       /\ shout' = IF c = "night" THEN [SH |-> Zero]
                   ELSE IF c = "missing" THEN [SH |-> NaN]
                   ELSE shout
  /\ UNCHANGED <<shin, shloop>>
  /\ UNCHANGED <<sepvars, pzvars, rwvars>>

\* get_SH_core called of its own
CoreCall ==
  /\ shpc = "call"
  /\ shin.entry = "get_SH_core"
  /\ shpc' = "loop"
  /\ UNCHANGED <<shin, shloop, shout>>
  /\ UNCHANGED <<sepvars, pzvars, rwvars>>

\* one iteration of the while loop of get_SH_core
Iterate ==
  /\ shpc = "loop"
  /\ ~shloop.done
  /\ shloop.iter < MaxIter
  /\ shloop' = call("CoreStep", <<shloop, shin.TH, shin.Sinh, shin.IN0,
                                  shin.name>>)
  /\ UNCHANGED <<shpc, shin, shout>>
  /\ UNCHANGED <<sepvars, pzvars, rwvars>>

\* the return of get_SH_core: to get_SH, which appends max(0.0, value), or
\* to the caller
Return ==
  /\ shpc = "loop"
  /\ shloop.done
  /\ IF shin.entry = "get_SH"
     THEN /\ shout' = [SH |-> call("get_SH_value", <<shloop.ret>>)]
          /\ shpc' = "derive"
     ELSE /\ shout' = [ret |-> shloop.ret]
          /\ shpc' = "done"
  /\ UNCHANGED <<shin, shloop>>
  /\ UNCHANGED <<sepvars, pzvars, rwvars>>

\* get_separate on the row: DN from the row's SH, floored
Derive ==
  /\ shpc = "derive"
  /\ shout' = [SH |-> shout.SH,
               DN |-> call("floor0", <<call("func_DN", <<shin.TH, shout.SH,
                                                        shin.Sinh>>)>>)]
  /\ shpc' = "done"
  /\ UNCHANGED <<shin, shloop>>
  /\ UNCHANGED <<sepvars, pzvars, rwvars>>

NextSH == Row \/ CoreCall \/ Iterate \/ Return \/ Derive

SpecSH == InitSH /\ [][NextSH]_vars

\* a step of the call can be taken: ENABLED <<NextSH>>_vars, written out
\* from the guards of the actions (every step changes shpc, shout or the
\* iteration count of shloop)
Running ==
  \/ shpc \in {"call", "derive"}
  \/ shpc = "loop" /\ (shloop.done \/ shloop.iter < MaxIter)

\* a call that has begun is run on, since nothing in the functions waits:
\* weak fairness of NextSH, WF_vars(NextSH), with its ENABLED written as
\* Running
SpecSHFair == SpecSH /\ ((<>[]Running) => ([]<><<NextSH>>_vars))

--------------------------------------------------------------------------
(* get_DN_perez, followed hour by hour.                                    *)

PerezInputs ==
  {call("Batch", <<p[1], p[2], e>>) :
     p \in {q \in (1..Len(Hours)) \X (1..MaxHours) :
              q[1] + q[2] - 1 <= Len(Hours)},
     e \in Elevations}

InitPerez ==
  /\ SepIdle
  /\ SHIdle
  /\ RWIdle
  /\ \E x \in PerezInputs : pzin = x
  /\ pzpc = "loop"
  /\ pzrow = <<>>
  /\ pzout = <<>>

\* one iteration of the loop of get_DN_perez, for the hour after those
\* done: the windows are built (which raises for the one hour of a
\* one-hour batch), then np.nan or the value of get_DN_perez_core is
\* appended to DN; the caller's arrays are as the iteration leaves them
Hour ==
  /\ pzpc = "loop"
  /\ Len(pzout) < Len(pzin.TH)
  /\ \E r \in {call("perez_hour", <<pzin.TH, pzin.h, pzin.TD, pzin.ALT,
                                    pzin.IN0, Len(pzout) + 1>>)} :
       IF r.err # "none"
       THEN /\ pzpc' = r.err
            /\ pzrow' = r
            /\ pzout' = pzout
            /\ pzin' = pzin
       ELSE /\ pzpc' = pzpc
            /\ pzrow' = r
            /\ pzout' = Append(pzout, r.dn)
            /\ pzin' = [pzin EXCEPT
                          !.TH = caller_array(@, r.G, Len(pzout) + 1),
                          !.h = caller_array(@, r.H, Len(pzout) + 1)]
  /\ UNCHANGED <<sepvars, shvars, rwvars>>

\* return np.array(DN)
Finish ==
  /\ pzpc = "loop"
  /\ Len(pzout) = Len(pzin.TH)
  /\ pzpc' = "returned"
  /\ UNCHANGED <<pzin, pzrow, pzout>>
  /\ UNCHANGED <<sepvars, shvars, rwvars>>

NextPerez == Hour \/ Finish

SpecPerez == InitPerez /\ [][NextPerez]_vars

--------------------------------------------------------------------------
(* get_SH_Erbs and get_DN_Udagawa, followed row by row.                    *)

InitRows ==
  /\ SepIdle
  /\ SHIdle
  /\ PZIdle
  /\ \E x \in call("RowBatches", <<MaxBatch>>) : rwin = x
  /\ rwpc = "loop"
  /\ rwout = <<>>

\* one iteration of the loop of get_SH_Erbs: sh of the row after those
\* done is appended to SH
ErbsRow ==
  /\ rwpc = "loop"
  /\ rwin.fn = "get_SH_Erbs"
  /\ Len(rwout) < Len(rwin.TH)
  /\ \E i \in {Len(rwout) + 1} :
       rwout' = Append(rwout, call("SH_Erbs_row",
                                   <<rwin.TH[i], rwin.IN0[i], rwin.Sinh[i]>>))
  /\ UNCHANGED <<rwpc, rwin>>
  /\ UNCHANGED <<sepvars, shvars, pzvars>>

\* one iteration of the loop of get_DN_Udagawa: dn of the row after those
\* done is appended to DN
UdagawaRow ==
  /\ rwpc = "loop"
  /\ rwin.fn = "get_DN_Udagawa"
  /\ Len(rwout) < Len(rwin.TH)
  /\ \E i \in {Len(rwout) + 1} :
       rwout' = Append(rwout, call("DN_Udagawa_row",
                                   <<rwin.TH[i], rwin.IN0[i], rwin.Sinh[i]>>))
  /\ UNCHANGED <<rwpc, rwin>>
  /\ UNCHANGED <<sepvars, shvars, pzvars>>

\* return np.array(SH), return np.array(DN)
RowsReturn ==
  /\ rwpc = "loop"
  /\ Len(rwout) = Len(rwin.TH)
  /\ rwpc' = "returned"
  /\ UNCHANGED <<rwin, rwout>>
  /\ UNCHANGED <<sepvars, shvars, pzvars>>

NextRows == ErbsRow \/ UdagawaRow \/ RowsReturn

SpecRows == InitRows /\ [][NextRows]_vars

--------------------------------------------------------------------------
(* Properties of get_separate (Spec).                                      *)

Targs == {"est", "msm"}

\* the SH and DN columns
OutCols == {"SH_est", "SH_msm", "DN_est", "DN_msm"}

\* the last call was made with a known model and returned a frame
Returned == last.status = "returned" /\ last.mode \in Models

\* the series of the frame a call has worked on
Series == {g \in Targs : ("DSWRF_" \o g) \in DOMAIN frame}

Rows == 1..Len(site.index)

\* C1: for every model and every row of the frame get_separate returns,
\* each of SH and DN that is not a missing value is >= 0.
C1_NonNegative ==
  Returned =>
    \A c \in OutCols \cap DOMAIN last.out : \A i \in Rows :
       isnan(last.out[c][i]) \/ ge(last.out[c][i], Zero)

\* a Nagata call has returned DN = 0 for a row with TH > 0 and Sinh < 0,
\* where (TH - SH)/Sinh is negative
C1_Floored ==
  /\ Returned
  /\ last.mode = "Nagata"
  /\ \E g \in Series : \E i \in Rows :
       /\ gt(frame["DSWRF_" \o g][i], Zero)
       /\ lt(frame.Sinh[i], Zero)
       /\ lt(call("func_DN", <<frame["DSWRF_" \o g][i],
                              last.out["SH_" \o g][i], frame.Sinh[i]>>), Zero)
       /\ last.out["DN_" \o g][i] = Zero

\* C2: for every model and every row with non-missing TH >= 0 and
\* Sinh > 0, the DN and SH get_separate returns satisfy
\* |TH - (DN*Sinh + SH)| <= 1e-4.
C2_EnergyBalance ==
  Returned =>
    \A g \in Series : \A i \in Rows :
       (ge(frame["DSWRF_" \o g][i], Zero) /\ gt(frame.Sinh[i], Zero)) =>
          le(Abs(sub(frame["DSWRF_" \o g][i],
                     add(mul(last.out["DN_" \o g][i], frame.Sinh[i]),
                         last.out["SH_" \o g][i]))),
             dec(1, 4))

\* C3: for every model and every row whose TH is a missing value, both DN
\* and SH of the row are missing values in the frame get_separate returns.
C3_MissingPropagates ==
  Returned =>
    \A g \in Series : \A i \in Rows :
       isnan(frame["DSWRF_" \o g][i]) =>
          isnan(last.out["DN_" \o g][i]) /\ isnan(last.out["SH_" \o g][i])

\* C4: a call of get_separate with a model name it does not know ends in a
\* configuration error, before the sun position is computed; it never
\* returns a frame.
C4_UnknownModelRejected ==
  (last.mode \notin Models /\ last.status # "none") =>
     last.status = "ConfigurationError" /\ (last.reused \/ frame = given)

\* C8: a call on a frame that an earlier call has worked on returns the DN
\* and SH a call with the same model returns on the frame as the caller
\* first had it.
C8_NoStateBetweenCalls ==
  last.reused =>
    \E r \in {call("get_separate", <<given, site.index, site.ele,
                                     last.mode>>)} :
       /\ (r.err = "none") <=> (last.status = "returned")
       /\ \A c \in OutCols \cap DOMAIN r.out :
            c \in DOMAIN last.out /\ last.out[c] = r.out[c]

--------------------------------------------------------------------------
(* Properties of get_SH and get_SH_core (SpecSH, SpecSHFair).              *)

\* C5: when the loop of get_SH_core ends by its non-convergence return,
\* the value of get_SH for the row is a missing value, and so is the DN
\* get_separate derives from it.
C5_NonConvergenceIsMissing ==
  (shpc = "done" /\ shin.entry = "get_SH" /\ shloop.exit = "not converged")
     => isnan(shout.SH) /\ isnan(shout.DN)

\* C6: the loop of a call of get_SH_core with Sinh > 0 terminates, after
\* at most 40 iterations.
C6_LoopTerminates == (shpc = "loop") ~> (shloop.done /\ shloop.iter <= 40)

\* a call of get_SH_core has returned from the longest loop, which ended
\* on the width of the bracket
C6_LongLoop ==
  /\ shpc = "done"
  /\ shin.entry = "get_SH_core"
  /\ gt(shin.Sinh, Zero)
  /\ shloop.done
  /\ shloop.iter >= 35

\* C7: with the models Nagata and Watanabe, a row with Sinh <= 0 gets
\* SH = 0 from get_SH whatever TH is, and get_SH_core is not entered for
\* the row.
C7_NightRowIsZero ==
  (shin.entry = "get_SH" /\ shpc \in {"derive", "done"}
     /\ le(shin.Sinh, Zero))
     => shout.SH = Zero /\ shloop = CoreStart

\* a row with Sinh < 0 and a missing TH has got SH = 0
C7_NightRowMissingTH ==
  /\ shpc = "done"
  /\ shin.entry = "get_SH"
  /\ lt(shin.Sinh, Zero)
  /\ isnan(shin.TH)
  /\ shout.SH = Zero

\* the midpoint of the bracket the loop has ended with
LastP == divint(add(shloop.a, shloop.b), 2)

\* C14: every non-missing value get_SH_core returns is
\* min(method_SH(P*, IN0, Sinh), TH) for a P* in [0, 0.85]: the converged
\* midpoint P if P < 0.85, 0.85 if the converged P >= 0.85 or a >= 0.85,
\* and 0 if P <= 1e-9; so the value returned never exceeds TH.
C14_ClampedReturn ==
  (shloop.done /\ ~isnan(shloop.ret)) =>
     \E Ps \in {IF shloop.exit = "converged" /\ lt(LastP, dec(85, 2))
                THEN LastP
                ELSE IF shloop.exit \in {"converged", "a>=P_max"}
                THEN dec(85, 2)
                ELSE Zero} :
     \E sh \in {call("method_SH", <<shin.name, Ps, shin.IN0, shin.Sinh>>)} :
        /\ shloop.exit \in {"converged", "a>=P_max", "P~0"}
        /\ shloop.exit = "a>=P_max" => ge(shloop.a, dec(85, 2))
        /\ shloop.exit = "P~0" => le(LastP, dec(1, 9))
        /\ le(Zero, Ps) /\ le(Ps, dec(85, 2))
        /\ shloop.ret = IF lt(shin.TH, sh) THEN shin.TH ELSE sh
        /\ ~gt(shloop.ret, shin.TH)

\* a call has returned TH, which is below the diffuse irradiance of the
\* P* it ended with
C14_ReturnsTH ==
  /\ shloop.done
  /\ shloop.exit = "P~0"
  /\ shloop.ret = shin.TH
  /\ lt(shin.TH, call("method_SH", <<shin.name, Zero, shin.IN0, shin.Sinh>>))

\* 1.2 / 2^k
Width(k) == div(dec(12, 1), pow(dec(2, 0), OfInt(k)))

\* the loop is at the start of an iteration
AtLoopStart == shpc = "loop" /\ ~shloop.done

\* C19 as stated: at the start of every iteration 0 <= a < b <= 1.2 and
\* b - a = 1.2 / 2^k after k bound updates; b is always > 0 and the exit
\* 'b <= 0.0' is never taken.
C19_ExactHalving ==
  /\ shloop.exit # "b<=P_min"
  /\ AtLoopStart =>
       /\ le(Zero, shloop.a)
       /\ lt(shloop.a, shloop.b)
       /\ le(shloop.b, dec(12, 1))
       /\ gt(shloop.b, Zero)
       /\ sub(shloop.b, shloop.a) = Width(shloop.iter)

\* C19 amended: at the start of every iteration 0 <= a < b <= 1.2 and
\* b - a is 1.2 / 2^k after k bound updates up to the rounding of the
\* midpoints (within 1e-15); b is always > 0 and the exit 'b <= 0.0' is
\* never taken.
C19_HalvingUpToRounding ==
  /\ shloop.exit # "b<=P_min"
  /\ AtLoopStart =>
       /\ le(Zero, shloop.a)
       /\ lt(shloop.a, shloop.b)
       /\ le(shloop.b, dec(12, 1))
       /\ gt(shloop.b, Zero)
       /\ le(Abs(sub(sub(shloop.b, shloop.a), Width(shloop.iter))),
             dec(1, 15))

\* the loop is at the start of an iteration after 18 and more updates of
\* its bounds, the lower bound among them, and b - a is 1.2 / 2^k up to
\* rounding only
C19_RoundedMidpoint ==
  /\ AtLoopStart
  /\ shloop.iter >= 18
  /\ gt(shloop.a, Zero)
  /\ sub(shloop.b, shloop.a) # Width(shloop.iter)

--------------------------------------------------------------------------
(* Properties of get_DN_perez (SpecPerez).                                 *)

\* C9: a call of get_DN_perez on n >= 1 hours ends without an error, with
\* one output per hour.
C9_OneOutputPerHour ==
  pzpc # "loop" => pzpc = "returned" /\ Len(pzout) = Len(pzin.TH)

\* C10: for every hour whose TH is present, if TH in W/m2 is below 1 or
\* the altitude of the hour is <= 0, the DN of the hour is exactly 0.
C10_ZeroRules ==
  \A k \in 1..Len(pzout) :
     (/\ ~isnan(pzin.TH[k])
      /\ \/ lt(call("MJ_to_W", <<pzin.TH[k]>>), One)
         \/ le(pzin.h[k], Zero))
        => pzout[k] = Zero

\* an hour with the sun on the horizon and more than 1 W/m2, which has a
\* neighbour with irradiance, has got DN = 0
C10_SunDownHour ==
  \E k \in 1..Len(pzout) :
     /\ k > 1
     /\ ~isnan(pzin.TH[k])
     /\ ~isnan(pzin.TH[k - 1])
     /\ ge(call("MJ_to_W", <<pzin.TH[k]>>), One)
     /\ le(pzin.h[k], Zero)
     /\ pzout[k] = Zero

\* C11: whenever the TH of an hour is missing, get_DN_perez puts a missing
\* value out for the hour, whatever its altitude and its neighbours are.
C11_MissingHourIsMissing ==
  \A k \in 1..Len(pzout) : isnan(pzin.TH[k]) => isnan(pzout[k])

\* a night hour with a missing TH, before an hour with irradiance, has got
\* a missing value, and get_DN_perez_core was not called for it
C11_MissingNightHour ==
  /\ Len(pzout) = 1
  /\ isnan(pzin.TH[1])
  /\ le(pzin.h[1], Zero)
  /\ ~isnan(pzin.TH[2])
  /\ isnan(pzout[1])
  /\ pzrow.core.exit = "not called"

AtLookup == Len(pzout) > 0 /\ pzrow.core.exit = "end"

\* C15: the volatility bin is the fixed index 6 exactly when the KT1 of
\* both neighbours is missing; otherwise DKT1 is the mean of the two
\* absolute differences when both neighbours are usable, the difference
\* to the usable neighbour when the other is missing or has a zenith
\* >= 85 degrees, and in every case a non-missing number.
C15_Volatility ==
  AtLookup =>
    LET KT1 == pzrow.core.loc.KT1
        DKT1 == pzrow.core.loc.DKT1
        Z(i) == sub(dec(90, 0), pzrow.H[i])
        usable(i) == ~isnan(KT1[i]) /\ lt(Z(i), dec(85, 0))
        both == isnan(KT1[1]) /\ isnan(KT1[3])
    IN /\ (pzrow.core.loc.K = 6) <=> both
       /\ ~both =>
            /\ ~isnan(DKT1)
            /\ (usable(1) /\ usable(3)) =>
                  DKT1 = mul(dec(5, 1), add(Abs(sub(KT1[2], KT1[1])),
                                            Abs(sub(KT1[3], KT1[2]))))
            /\ (usable(1) /\ ~usable(3)) =>
                  DKT1 = Abs(sub(KT1[2], KT1[1]))
            /\ (usable(3) /\ ~usable(1)) =>
                  DKT1 = Abs(sub(KT1[3], KT1[2]))

\* C18: when get_DN_perez_core reaches the lookup in the table, I and J
\* are in 0..5, K is in 0..6 and L in 0..4; K = 6 only when the KT1 of
\* both neighbours is missing, L = 4 only when the dew point is missing.
C18_IndicesInTable ==
  AtLookup =>
    /\ pzrow.core.loc.I \in 0..5
    /\ pzrow.core.loc.J \in 0..5
    /\ pzrow.core.loc.K \in 0..6
    /\ pzrow.core.loc.L \in 0..4
    /\ pzrow.core.loc.K = 6 =>
         isnan(pzrow.core.loc.KT1[1]) /\ isnan(pzrow.core.loc.KT1[3])
    /\ pzrow.core.loc.L = 4 => isnan(pzin.TD[Len(pzout)])

\* the lookup was reached for an hour between two missing hours, with
\* K = 6 and a dew point that is present
C18_FallbackBin ==
  /\ AtLookup
  /\ pzrow.core.loc.K = 6
  /\ isnan(pzrow.G[1])
  /\ isnan(pzrow.G[3])
  /\ ~isnan(pzin.TD[Len(pzout)])
  /\ pzrow.core.loc.L \in 0..3

--------------------------------------------------------------------------
(* Properties of get_SH_Erbs and get_DN_Udagawa (SpecRows).                *)

\* the rows a call of fn has done
Done(fn) == IF rwin.fn = fn THEN 1..Len(rwout) ELSE {}

\* min(1, TH / (IN0 * Sinh))
ClaimedKT(TH, IN0, Sinh) ==
  LET q == div(TH, mul(IN0, Sinh))
  IN IF lt(q, One) THEN q ELSE One

\* max(0, x)
Max0(x) == IF gt(x, Zero) THEN x ELSE Zero

\* C13: for every Sinh > 0 and IN0 > 0, at KT = KC, with KC as
\* get_DN_Udagawa computes it, the cubic and the linear formula give DN
\* values that agree within a small tolerance (0.05 MJ/m2).
C13_ContinuousAtCrossover ==
  \A k \in Done("get_DN_Udagawa") :
     (gt(rwin.Sinh[k], Zero) /\ gt(rwin.IN0[k], Zero)) =>
        \E kc \in {call("KC", <<rwin.IN0[k], rwin.Sinh[k]>>)} :
           le(Abs(sub(call("func_DN_Udagawa_3d",
                           <<rwin.IN0[k], rwin.Sinh[k], kc>>),
                      call("func_DN_Udagawa_1d", <<rwin.IN0[k], kc>>))),
              dec(5, 2))

\* C16: get_DN_Udagawa returns, per row: missing when TH is missing; 0
\* when TH <= 0; otherwise max(0, cubic formula) if KT < KC and
\* max(0, linear formula) if KT >= KC, with KT = min(1, TH/(IN0*Sinh)) and
\* KC = (0.5163 + 0.333*Sinh + 0.00803*Sinh^2)*IN0*Sinh.
C16_UdagawaRows ==
  \A k \in Done("get_DN_Udagawa") :
     LET TH == rwin.TH[k]
         IN0 == rwin.IN0[k]
         Sinh == rwin.Sinh[k]
         KT == ClaimedKT(TH, IN0, Sinh)
         kc == mul(mul(add(add(dec(5163, 4), mul(dec(333, 3), Sinh)),
                           mul(dec(803, 5), mul(Sinh, Sinh))), IN0), Sinh)
     IN IF isnan(TH) THEN isnan(rwout[k])
        ELSE IF le(TH, Zero) THEN rwout[k] = Zero
        ELSE IF lt(KT, kc)
        THEN rwout[k] = Max0(call("func_DN_Udagawa_3d", <<IN0, Sinh, KT>>))
        ELSE ge(KT, kc)
             /\ rwout[k] = Max0(call("func_DN_Udagawa_1d", <<IN0, KT>>))

\* a row with KT >= KC whose linear formula is negative has got DN = 0
C16_LinearFloored ==
  \E k \in Done("get_DN_Udagawa") :
     /\ gt(rwin.TH[k], Zero)
     /\ gt(rwin.Sinh[k], Zero)
     /\ ge(ClaimedKT(rwin.TH[k], rwin.IN0[k], rwin.Sinh[k]),
           call("KC", <<rwin.IN0[k], rwin.Sinh[k]>>))
     /\ lt(call("func_DN_Udagawa_1d",
                <<rwin.IN0[k],
                  ClaimedKT(rwin.TH[k], rwin.IN0[k], rwin.Sinh[k])>>), Zero)
     /\ rwout[k] = Zero

\* C17: get_SH_Erbs returns, per row: missing when TH is missing; 0 when
\* TH <= 0; otherwise, with KT = min(1, TH/(IN0*Sinh)), TH*(1 - 0.09*KT)
\* if KT <= 0.22, the polynomial of degree 4 times TH if 0.22 < KT <= 0.80,
\* and 0.165*TH if KT > 0.80.
C17_ErbsRows ==
  \A k \in Done("get_SH_Erbs") :
     LET TH == rwin.TH[k]
         KT == ClaimedKT(TH, rwin.IN0[k], rwin.Sinh[k])
     IN IF isnan(TH) THEN isnan(rwout[k])
        ELSE IF le(TH, Zero) THEN rwout[k] = Zero
        ELSE IF le(KT, dec(22, 2))
        THEN rwout[k] = mul(TH, sub(One, mul(dec(9, 2), KT)))
        ELSE IF le(KT, dec(80, 2))
        THEN rwout[k] = call("func_SH_Erbs_4d", <<TH, KT>>)
        ELSE gt(KT, dec(80, 2)) /\ rwout[k] = mul(dec(165, 3), TH)

\* a row with KT = 0.22 has got TH*(1 - 0.09*KT), and the row after it,
\* with 0.22 < KT <= 0.80, has not
C17_BoundaryRow ==
  /\ rwin.fn = "get_SH_Erbs"
  /\ Len(rwout) = 2
  /\ ClaimedKT(rwin.TH[1], rwin.IN0[1], rwin.Sinh[1]) = dec(22, 2)
  /\ rwout[1] = mul(rwin.TH[1], sub(One, mul(dec(9, 2), dec(22, 2))))
  /\ gt(ClaimedKT(rwin.TH[2], rwin.IN0[2], rwin.Sinh[2]), dec(22, 2))
  /\ rwout[2] # mul(rwin.TH[2],
                    sub(One, mul(dec(9, 2),
                                 ClaimedKT(rwin.TH[2], rwin.IN0[2],
                                           rwin.Sinh[2]))))

====
